---- MODULE Spec2Model ----
(***************************************************************************)
(* Verification model of the discovery query server's in-memory index and  *)
(* reachability evaluator (src/discovery/server/storage/etcd.py), of the   *)
(* storage's connect, rebuild and watch loop against the KV store, and of  *)
(* the watcher (src/discovery/watcher).                                    *)
(*                                                                         *)
(* Strings of the program are modelled as sequences of one-character       *)
(* strings, so that prefix tests (str.startswith), splitting on the last   *)
(* '.' (str.rsplit) and lexicographic comparison are computed, not assumed.*)
(***************************************************************************)
EXTENDS Integers, Sequences, FiniteSets, TLC

VARIABLES
    _workloads,     \* dict id -> Workload, in insertion order: a sequence of [key, value]
    _by_hostname,   \* dict hostname -> id
    _by_name,       \* dict "namespace/name" or "name" -> id
    _by_group,      \* defaultdict group -> set of ids
    response,       \* what the last query returned (reset by every index write)
    kv,             \* the KV store: key -> value, for the keys that exist
    revision,       \* the KV store's revision: the number of writes so far
    events,         \* the events the open watch stream has not delivered yet
    cursor,         \* the watch cursor: "none", "open" or "cancelled"
    watch_pc,       \* where the thread of _watch_loop is
    _stop_watch,    \* threading.Event: is the stop flag set
    rebuild_pc,     \* where connect() / the rebuild is
    results,        \* the items get_prefix returned that the rebuild has not scanned yet
    _metadata,      \* the watcher's dict id -> scraped metadata
    pending,        \* the KV write a register/deregister in progress has made
    applied,        \* per id, the revision of the store write the index's entry comes from
    call,           \* the find_reachable in progress: its identity and identified caller
    consistent,     \* the results the index states seen since that call began would give
    main_pc,        \* where ServiceDiscovery.start is
    connect_result, \* what the adapter's connect() returned: "none" before it
    _v1,            \* the Kubernetes adapter's API handle: is it set
    _stop_event,    \* threading.Event of the adapter: is the stop flag set
    to_register,    \* the workloads _sync_initial_state has listed and not registered yet
    watch_events_pc, \* where the thread of watch_events is
    pod_pc,         \* where the thread of _watch_pods is
    svc_pc,         \* where the thread of _watch_services is
    pod_stream,     \* the pod events the API has produced and _watch_pods has not read
    svc_stream,     \* the service events the API has produced and _watch_services has not read
    produced,       \* the number of events the runtime has produced
    delivered,      \* the calls of the callback, in call order, each with its event's production number
    closed_at,      \* where watch_events was when close() returned, "none" before it
    _resource_version, \* self._resource_version: the resume token of the pod watch
    resource_version, \* the local resource_version of _watch_services
    pod_opened,     \* the resource_version the last pod stream was opened with
    svc_opened,     \* the resource_version the last service stream was opened with
    _lock,          \* threading.RLock of the server's storage: the thread that owns it, "free" for none
    writing,        \* the _update_index in progress between its remove and its insert
    engine,         \* the runtime the adapter is connected to: its kind and the status of each container or pod
    stream,         \* the events the runtime has produced and the loop of watch_events has not read
    cni_changes,    \* the changed files of the CNI state directory the observer has not handled
    stopped,        \* the containers whose last handled lifecycle event was a stop
    input,          \* the arguments of a function called on its own
    output          \* what that call returned, or did

\* The four tables of the index.
index_vars == <<_workloads, _by_hostname, _by_name, _by_group>>

\* The KV store and the threads of the storage that talk to it.
store_vars == <<kv, revision, events, cursor, watch_pc, _stop_watch, rebuild_pc, results>>

\* The watcher's storage: its metadata table and the thread that handles
\* the adapter's events.
watcher_vars == <<_metadata, pending, applied>>

\* A query in progress.
query_vars == <<call, consistent>>

\* The watcher daemon's main thread, its runtime adapter and the adapter's
\* threads and event sources.
adapter_vars ==
    <<main_pc, connect_result, _v1, _stop_event, to_register, watch_events_pc,
      pod_pc, svc_pc, pod_stream, svc_stream, produced, delivered, closed_at,
      _resource_version, resource_version, pod_opened, svc_opened>>

\* The lock of the server's index and the write in progress under it.
lock_vars == <<_lock, writing>>

\* The container runtime of a Docker or containerd adapter and its events.
runtime_vars == <<engine, stream, cni_changes, stopped>>

\* A function of the program called on its own: its arguments and result.
pure_vars == <<input, output>>

\* What the storage of the query server does not have.
beyond_store == <<watcher_vars, query_vars, adapter_vars, lock_vars, runtime_vars, pure_vars>>

vars == <<index_vars, response, store_vars, beyond_store>>

\* ------------------------------------------------------------------ bounds

\* The largest number of workloads the index holds at a time.
MaxWorkloads == 3

\* ----------------------------------------------------------------- strings

\* Python's None for an optional string field (distinct from every string).
None == <<"None">>

\* Python truthiness of an Optional[str]: None and "" are falsy.
Truthy(s) == s # None /\ s # <<>>

\* The characters the model's strings use, in ascending code-point order.
Alphabet ==
    <<".", "/", "0", "1", "2", "3", "4", "5", "6", "8", "9", ":",
      "a", "b", "c", "d", "e", "h", "i", "k", "l", "m", "n", "o", "p", "q",
      "r", "s", "t", "u", "v", "w", "y", "z">>

Ord(c) == CHOOSE i \in DOMAIN Alphabet : Alphabet[i] = c

\* s < t for Python strings: lexicographic by code point.
RECURSIVE StrLess(_, _)
StrLess(s, t) ==
    IF t = <<>> THEN FALSE
    ELSE IF s = <<>> THEN TRUE
    ELSE IF Head(s) = Head(t) THEN StrLess(Tail(s), Tail(t))
    ELSE Ord(Head(s)) < Ord(Head(t))

\* s.startswith(p)
StartsWith(s, p) == Len(p) <= Len(s) /\ SubSeq(s, 1, Len(p)) = p

\* The position of the last '.' of s, 0 when s has none.
LastDot(s) ==
    LET dots == {i \in DOMAIN s : s[i] = "."}
    IN  IF dots = {} THEN 0 ELSE CHOOSE i \in dots : \A j \in dots : j <= i

\* s.rsplit(".", 1): one part when s has no '.', else the text before and
\* the text after the last '.'.
RSplit(s) ==
    IF LastDot(s) = 0 THEN <<s>>
    ELSE <<SubSeq(s, 1, LastDot(s) - 1), SubSeq(s, LastDot(s) + 1, Len(s))>>

\* f"{namespace}/{name}"
NsName(namespace, name) == namespace \o <<"/">> \o name

\* The elements of a list, as a set: set(list).
SetOf(list) == {list[i] : i \in DOMAIN list}

\* Every order in which a set can be iterated: the iteration order of a Python
\* set of strings depends on the process's hash seed.
RECURSIVE Orders(_)
Orders(S) ==
    IF S = {} THEN {<<>>}
    ELSE UNION {{<<x>> \o rest : rest \in Orders(S \ {x})} : x \in S}

\* ----------------------------------------------------------------- Workload

\* Runtime and WorkloadType enum values (strings in the Workload record).
DOCKER == <<"d", "o", "c", "k", "e", "r">>
KUBERNETES == <<"k", "u", "b", "e", "r", "n", "e", "t", "e", "s">>
CONTAINER == <<"c", "o", "n", "t", "a", "i", "n", "e", "r">>
POD == <<"p", "o", "d">>
SERVICE == <<"s", "e", "r", "v", "i", "c", "e">>

\* The Workload record: the fields find_reachable copies.
Workload(id, name, hostname, runtime, workload_type, node, namespace, addresses, isolation_groups) ==
    [id |-> id, name |-> name, hostname |-> hostname, runtime |-> runtime,
     workload_type |-> workload_type, node |-> node, namespace |-> namespace,
     addresses |-> addresses, isolation_groups |-> isolation_groups,
     ports |-> <<>>, labels |-> <<>>, annotations |-> <<>>,
     metadata |-> None, registrar |-> None]

\* What dict.get returns for a missing workload (Python's None).
NoWorkload == [none |-> TRUE]

\* ------------------------------------------------------------------- dicts

\* _workloads is an insertion-ordered dict: a sequence of entries.
Keys(d) == {d[i].key : i \in DOMAIN d}

\* d.get(k)
Get(d, k) ==
    IF k \in Keys(d)
    THEN (CHOOSE e \in SetOf(d) : e.key = k).value
    ELSE NoWorkload

\* del d[k]
Del(d, k) == SelectSeq(d, LAMBDA e : e.key # k)

\* d[k] = v: a present key keeps its place, a new key goes last.
Put(d, k, v) ==
    IF k \in Keys(d)
    THEN [i \in DOMAIN d |-> IF d[i].key = k THEN [key |-> k, value |-> v] ELSE d[i]]
    ELSE Append(d, [key |-> k, value |-> v])

\* The unordered dicts (never iterated) are functions.
\* f.get(k) == v
PointsTo(f, k, v) == k \in DOMAIN f /\ f[k] = v

\* del f[k]
FDel(f, k) == [x \in DOMAIN f \ {k} |-> f[x]]

\* f[k] = v
FPut(f, k, v) == [x \in DOMAIN f \cup {k} |-> IF x = k THEN v ELSE f[x]]

\* The four index tables as one value.
Index == [workloads |-> _workloads, by_hostname |-> _by_hostname,
          by_name |-> _by_name, by_group |-> _by_group]

EmptyIndex == [workloads |-> <<>>, by_hostname |-> <<>>,
               by_name |-> <<>>, by_group |-> <<>>]

\* -------------------------------------------------------- index maintenance
\* Mutant of DiscardFromGroups: a group set that becomes empty stays.
DiscardKeepsEmpty(by_group, groups, workload_id) ==
    [g \in DOMAIN by_group |->
        IF g \in SetOf(groups) THEN by_group[g] \ {workload_id} ELSE by_group[g]]

\* Mutant of DiscardFromGroups: the id stays in its groups.
DiscardFromGroupsNever(by_group, groups, workload_id) == by_group

\* The loop of _remove_from_index over workload.isolation_groups:
\* self._by_group[group].discard(id), then del self._by_group[group] when the
\* set is empty. _by_group is a defaultdict, so a group that is no key (a
\* group listed twice, already deleted) is created empty and deleted again.
RECURSIVE DiscardFromGroups(_, _, _)
DiscardFromGroups(by_group, groups, workload_id) ==
    IF groups = <<>> THEN by_group
    ELSE LET group == Head(groups)
             members == (IF group \in DOMAIN by_group THEN by_group[group] ELSE {})
                            \ {workload_id}
             next == IF members = {} THEN FDel(by_group, group)
                     ELSE FPut(by_group, group, members)
         IN  DiscardFromGroups(next, Tail(groups), workload_id)

\* Mutant of AddToGroups: only the first group is indexed.
AddToGroupsFirstOnly(by_group, groups, workload_id) ==
    IF groups = <<>> THEN by_group
    ELSE FPut(by_group, Head(groups),
              (IF Head(groups) \in DOMAIN by_group THEN by_group[Head(groups)] ELSE {})
                  \cup {workload_id})

\* The loop of _update_index over workload.isolation_groups:
\* self._by_group[group].add(workload_id).
RECURSIVE AddToGroups(_, _, _)
AddToGroups(by_group, groups, workload_id) ==
    IF groups = <<>> THEN by_group
    ELSE LET group == Head(groups)
             members == (IF group \in DOMAIN by_group THEN by_group[group] ELSE {})
                            \cup {workload_id}
         IN  AddToGroups(FPut(by_group, group, members), Tail(groups), workload_id)
\* Mutant of _remove_from_index: the hostname and name entries of the
\* workload are deleted whoever they point to.
RemoveWhoeverOwns(ix, workload_id) ==
    LET workload == Get(ix.workloads, workload_id)
    IN  IF workload = NoWorkload THEN ix
        ELSE [workloads |-> Del(ix.workloads, workload_id),
              by_hostname |-> FDel(ix.by_hostname, workload.hostname),
              by_name |-> FDel(ix.by_name, workload.name),
              by_group |-> DiscardFromGroups(ix.by_group, workload.isolation_groups,
                                             workload_id)]

\* Mutant of _remove_from_index: the workload leaves the main table, its
\* hostname, name and group entries stay.
RemoveFromMainOnly(ix, workload_id) ==
    [ix EXCEPT !.workloads = Del(ix.workloads, workload_id)]

\* EtcdStorage._remove_from_index(workload_id), as a function of the index.
_remove_from_index(ix, workload_id) ==
    LET workload == Get(ix.workloads, workload_id)
    IN  IF workload = NoWorkload THEN ix
        ELSE
        LET by_hostname1 ==
                IF Truthy(workload.hostname)
                   /\ PointsTo(ix.by_hostname, workload.hostname, workload_id)
                THEN FDel(ix.by_hostname, workload.hostname)
                ELSE ix.by_hostname
            name_key == IF Truthy(workload.namespace)
                        THEN NsName(workload.namespace, workload.name)
                        ELSE workload.name
            by_name1 == IF PointsTo(ix.by_name, name_key, workload_id)
                        THEN FDel(ix.by_name, name_key)
                        ELSE ix.by_name
            by_name2 == IF PointsTo(by_name1, workload.name, workload_id)
                        THEN FDel(by_name1, workload.name)
                        ELSE by_name1
        IN  [workloads |-> Del(ix.workloads, workload_id),
             by_hostname |-> by_hostname1,
             by_name |-> by_name2,
             by_group |-> DiscardFromGroups(ix.by_group, workload.isolation_groups,
                                            workload_id)]

\* EtcdStorage._update_index(workload_id, workload), as a function of the index.
_update_index(ix, workload_id, workload) ==
    LET old == _remove_from_index(ix, workload_id)
        by_name1 == IF Truthy(workload.namespace)
                    THEN FPut(old.by_name,
                              NsName(workload.namespace, workload.name), workload_id)
                    ELSE old.by_name
    IN  [workloads |-> Put(old.workloads, workload_id, workload),
         by_hostname |-> IF Truthy(workload.hostname)
                         THEN FPut(old.by_hostname, workload.hostname, workload_id)
                         ELSE old.by_hostname,
         by_name |-> FPut(by_name1, workload.name, workload_id),
         by_group |-> AddToGroups(old.by_group, workload.isolation_groups,
                                  workload_id)]

\* ------------------------------------------------------------------ queries

\* Mutant of PrefixScan: the prefix step is missing.
PrefixScanNever(workloads, identity) == NoWorkload

\* The last step of _identify_workload: the first workload, in the dict's
\* iteration (insertion) order, whose id starts with identity.
PrefixScan(workloads, identity) ==
    LET hits == {i \in DOMAIN workloads : StartsWith(workloads[i].key, identity)}
    IN  IF hits = {} THEN NoWorkload
        ELSE workloads[CHOOSE i \in hits : \A j \in hits : i <= j].value

\* Mutant of _identify_workload: the name table is tried before the
\* hostname table.
IdentifyNameFirst(ix, identity) ==
    IF identity \in DOMAIN ix.by_name
    THEN Get(ix.workloads, ix.by_name[identity])
    ELSE IF identity \in DOMAIN ix.by_hostname
    THEN Get(ix.workloads, ix.by_hostname[identity])
    ELSE IF identity \in Keys(ix.workloads)
    THEN Get(ix.workloads, identity)
    ELSE PrefixScan(ix.workloads, identity)

\* EtcdStorage._identify_workload(identity): by hostname, by name, by id,
\* by id prefix; the first table that has the identity decides.
_identify_workload(ix, identity) ==
    IF identity \in DOMAIN ix.by_hostname
    THEN Get(ix.workloads, ix.by_hostname[identity])
    ELSE IF identity \in DOMAIN ix.by_name
    THEN Get(ix.workloads, ix.by_name[identity])
    ELSE IF identity \in Keys(ix.workloads)
    THEN Get(ix.workloads, identity)
    ELSE PrefixScan(ix.workloads, identity)

\* The address loop of find_reachable: an address whose rsplit(".", 1) has
\* two parts is kept when the second part is a shared group; an address
\* without '.' is kept.
RECURSIVE FilterAddresses(_, _)
FilterAddresses(addresses, shared_groups) ==
    IF addresses = <<>> THEN <<>>
    ELSE LET addr == Head(addresses)
             parts == RSplit(addr)
             keep == IF Len(parts) = 2 THEN parts[2] \in shared_groups ELSE TRUE
         IN  (IF keep THEN <<addr>> ELSE <<>>)
                 \o FilterAddresses(Tail(addresses), shared_groups)

\* Mutant of FilteredWorkload: the copy keeps the stored isolation_groups.
FilteredWorkloadAllGroups(workload, shared_groups, group_list) ==
    [workload EXCEPT !.addresses = FilterAddresses(workload.addresses, shared_groups)]

\* The copy find_reachable makes of a reachable workload: every field of the
\* stored workload but addresses and isolation_groups. group_list is
\* list(shared_groups), in one of the set's iteration orders.
FilteredWorkload(workload, shared_groups, group_list) ==
    [id |-> workload.id, name |-> workload.name, hostname |-> workload.hostname,
     runtime |-> workload.runtime, workload_type |-> workload.workload_type,
     node |-> workload.node, namespace |-> workload.namespace,
     addresses |-> FilterAddresses(workload.addresses, shared_groups),
     isolation_groups |-> group_list,
     ports |-> workload.ports, labels |-> workload.labels,
     annotations |-> workload.annotations, metadata |-> workload.metadata,
     registrar |-> workload.registrar]

\* list.sort(key=lambda w: w.name): a stable sort, so workloads of equal
\* name keep the order they had in the list (insertion sort from the left).
RECURSIVE InsertByName(_, _)
InsertByName(sorted, w) ==
    IF sorted = <<>> THEN <<w>>
    ELSE IF StrLess(w.name, sorted[Len(sorted)].name)
    THEN Append(InsertByName(SubSeq(sorted, 1, Len(sorted) - 1), w),
                sorted[Len(sorted)])
    ELSE Append(sorted, w)

RECURSIVE SortByName(_)
SortByName(list) ==
    IF list = <<>> THEN <<>>
    ELSE InsertByName(SortByName(SubSeq(list, 1, Len(list) - 1)), list[Len(list)])

\* Mutant of ReachableIds: the caller is not discarded.
ReachableIdsWithCaller(ix, caller) ==
    UNION {IF group \in DOMAIN ix.by_group THEN ix.by_group[group] ELSE {}
             : group \in SetOf(caller.isolation_groups)}

\* Mutant of ReachableIds: the members of every group of the caller
\* (intersection) instead of the members of any (union).
ReachableIdsAllGroups(ix, caller) ==
    {id \in Keys(ix.workloads) :
        \A group \in SetOf(caller.isolation_groups) :
            group \in DOMAIN ix.by_group /\ id \in ix.by_group[group]}
        \ {caller.id}

\* The ids find_reachable collects: the union of _by_group.get(group, set())
\* over the caller's groups, without caller.id.
ReachableIds(ix, caller) ==
    UNION {IF group \in DOMAIN ix.by_group THEN ix.by_group[group] ELSE {}
             : group \in SetOf(caller.isolation_groups)}
        \ {caller.id}

\* The lists the loop over reachable_ids can build, for one iteration order
\* of reachable_ids: an id with no stored workload is skipped, and each
\* copy's isolation_groups is list(shared_groups) in any of its orders.
RECURSIVE BuildReachable(_, _, _)
BuildReachable(ix, caller_groups, ids) ==
    IF ids = <<>> THEN {<<>>}
    ELSE LET workload == Get(ix.workloads, Head(ids))
             rest == BuildReachable(ix, caller_groups, Tail(ids))
         IN  IF workload = NoWorkload THEN rest
             ELSE LET shared_groups ==
                          caller_groups \cap SetOf(workload.isolation_groups)
                  IN  {<<FilteredWorkload(workload, shared_groups, group_list)>> \o r
                         : group_list \in Orders(shared_groups), r \in rest}

\* ReachabilityResult(caller, reachable); count is set by __post_init__.
ReachabilityResult(identity, caller, reachable) ==
    [op |-> "find_reachable", identity |-> identity, status |-> "ok",
     caller |-> caller, reachable |-> reachable, count |-> Len(reachable)]

\* raise ValueError("Caller not found: ...")
NotFound(identity) ==
    [op |-> "find_reachable", identity |-> identity, status |-> "not_found"]

\* The body of find_reachable under "with self._lock", for a caller that
\* was identified before the lock was taken: every result it can return on
\* index ix.
reachable_under_lock(ix, caller_identity, caller) ==
    LET caller_groups == SetOf(caller.isolation_groups)
    IN  IF caller_groups = {}
        THEN {ReachabilityResult(caller_identity, caller, <<>>)}
        ELSE {ReachabilityResult(caller_identity, caller, SortByName(list))
                : list \in UNION {BuildReachable(ix, caller_groups, ids)
                                    : ids \in Orders(ReachableIds(ix, caller))}}

\* EtcdStorage.find_reachable(caller_identity) with no index write between
\* its two lock acquisitions: every result the call can return on index ix.
find_reachable(ix, caller_identity) ==
    LET caller == _identify_workload(ix, caller_identity)
    IN  IF caller = NoWorkload THEN {NotFound(caller_identity)}
        ELSE reachable_under_lock(ix, caller_identity, caller)

\* ------------------------------------------------- watcher-side evaluator

\* The watcher's Workload dataclass has these fields (it has no ports).
WorkloadFields ==
    {"id", "name", "hostname", "runtime", "workload_type", "node", "namespace",
     "addresses", "isolation_groups", "labels", "annotations", "metadata",
     "registrar"}

\* Workload.to_dict(): the fields whose value is not None.
to_dict(w) ==
    [k \in {f \in WorkloadFields \cap DOMAIN w : w[f] # None} |-> w[k]]

\* data.get(key, default)
DictGet(data, key, default) == IF key \in DOMAIN data THEN data[key] ELSE default

\* Mutant of from_dict: a key that is missing reads as the empty string.
from_dict_blank(data) ==
    [k \in WorkloadFields |-> DictGet(data, k, <<>>)]

\* Workload.from_dict(data): a missing key takes its default.
from_dict(data) ==
    [id |-> DictGet(data, "id", <<>>),
     name |-> DictGet(data, "name", <<>>),
     hostname |-> DictGet(data, "hostname", <<>>),
     runtime |-> DictGet(data, "runtime", DOCKER),
     workload_type |-> DictGet(data, "workload_type", CONTAINER),
     node |-> DictGet(data, "node", None),
     namespace |-> DictGet(data, "namespace", None),
     addresses |-> DictGet(data, "addresses", <<>>),
     isolation_groups |-> DictGet(data, "isolation_groups", <<>>),
     labels |-> DictGet(data, "labels", <<>>),
     annotations |-> DictGet(data, "annotations", <<>>),
     metadata |-> DictGet(data, "metadata", None),
     registrar |-> DictGet(data, "registrar", None)]

\* The lists the loop of the watcher's find_reachable can build for one
\* iteration order: services are skipped unless include_services, each
\* workload is copied through its dict form and gets _metadata.get(wid).
RECURSIVE WatcherBuildReachable(_, _, _, _)
WatcherBuildReachable(ix, metadata, include_services, ids) ==
    IF ids = <<>> THEN <<>>
    ELSE LET workload == Get(ix.workloads, Head(ids))
             rest == WatcherBuildReachable(ix, metadata, include_services, Tail(ids))
         IN  IF workload = NoWorkload THEN rest
             ELSE IF ~include_services /\ workload.workload_type = SERVICE THEN rest
             ELSE <<[from_dict(to_dict(workload))
                       EXCEPT !.metadata = DictGet(metadata, Head(ids), None)]>> \o rest

\* The watcher's EtcdStorage.find_reachable(caller_identity, include_services)
\* on an index of the same four tables and the metadata map: every result
\* the call can return.
watcher_find_reachable(ix, metadata, caller_identity, include_services) ==
    LET caller == _identify_workload(ix, caller_identity)
    IN  IF caller = NoWorkload THEN {NotFound(caller_identity)}
        ELSE IF SetOf(caller.isolation_groups) = {}
        THEN {ReachabilityResult(caller_identity, caller, <<>>)}
        ELSE {ReachabilityResult(caller_identity, caller,
                  SortByName(WatcherBuildReachable(ix, metadata, include_services, ids)))
                : ids \in Orders(ReachableIds(ix, caller))}

\* ------------------------------------------------------------------- inputs

\* Workload ids. Id1 is a proper prefix of Id2.
Id1 == <<"c", "1">>
Id2 == <<"c", "1", "2">>
Id3 == <<"d", "3">>
Id4 == <<"e", "4">>

Ids == {Id1, Id2, Id3, Id4}

\* Isolation groups: two container networks and a namespace.
Net1 == <<"n", "1">>
Net2 == <<"n", "2">>
Ns == <<"t">>

\* f"{name}.{network_name}", the address of a container in a network.
NetAddr(name, network) == name \o <<".">> \o network

\* f"{pod_ip}:{container_port}", a bare pod ip, and a service's DNS address
\* f"{name}.{namespace}.svc.cluster.local:{port}".
IpPort == <<"1", "0", ".", "0", ".", "0", ".", "5", ":", "8", "0">>
BareIp == <<"1", "0", ".", "0", ".", "0", ".", "6">>
ClusterIpPort == <<"1", "0", ".", "0", ".", "0", ".", "9", ":", "8", "0">>
SvcDns ==
    <<"s", ".", "t", ".", "s", "v", "c", ".", "c", "l", "u", "s", "t", "e", "r",
      ".", "l", "o", "c", "a", "l", ":", "8", "0">>

\* A stored workload of the container shape (Docker, containerd): no
\* namespace, one address name.network per network. hostname is whatever the
\* stored value carries.
Container(id, name, hostname, networks) ==
    Workload(id, name, hostname, DOCKER, CONTAINER, None, None,
             [i \in DOMAIN networks |-> NetAddr(name, networks[i])], networks)

\* A stored workload of the Kubernetes shape (pod or service): hostname is
\* its name, its one isolation group is its namespace.
Namespaced(id, name, workload_type, addresses) ==
    Workload(id, name, name, KUBERNETES, workload_type, None, Ns, addresses, <<Ns>>)

\* The values a watcher may store under each id. They cover: groups none,
\* one, two; two ids with the same hostname and name; equal names under
\* different ids; a hostname that is another workload's name or id; a name
\* that is another workload's id; the three address shapes.
Values(id) ==
    CASE id = Id1 ->
           {Container(Id1, <<"a">>, Id1, <<Net1>>),
            Container(Id1, <<"b">>, Id4, <<>>),
            Namespaced(Id1, <<"p">>, POD, <<IpPort>>)}
      [] id = Id2 ->
           {Container(Id2, <<"b">>, Id2, <<Net1, Net2>>),
            Container(Id2, <<"b">>, Id4, <<>>),
            Container(Id2, Id1, <<"a">>, <<Net1>>),
            Namespaced(Id2, <<"q">>, POD, <<BareIp>>)}
      [] id = Id3 ->
           {Container(Id3, <<"b">>, Id3, <<Net2>>),
            Namespaced(Id3, <<"s">>, SERVICE, <<ClusterIpPort, SvcDns>>)}
      [] id = Id4 ->
           {Container(Id4, <<"a">>, Id4, <<Net2, Net1>>)}

\* The identity strings queries are made with: the ids (Id1 is also a name
\* and a hostname, Id4 a hostname), the id prefixes "" and "c", names and
\* hostnames, a namespace/name, and "zz", which matches nothing.
Identities ==
    Ids \cup {<<>>, <<"c">>, <<"z", "z">>, <<"a">>, <<"b">>, <<"p">>,
              NsName(Ns, <<"p">>)}

\* ------------------------------------------------------------------ actions

NoResponse == [op |-> "none"]

\* The program after construction: empty tables, an empty store, no thread
\* started.
InitProgram ==
    /\ _workloads = <<>>
    /\ _by_hostname = <<>>
    /\ _by_name = <<>>
    /\ _by_group = <<>>
    /\ response = NoResponse
    /\ kv = <<>>
    /\ revision = 0
    /\ events = <<>>
    /\ cursor = "none"
    /\ watch_pc = "unstarted"
    /\ _stop_watch = FALSE
    /\ rebuild_pc = "unconnected"
    /\ results = <<>>
    /\ _metadata = <<>>
    /\ pending = [op |-> "none"]
    /\ applied = <<>>
    /\ call = [op |-> "none"]
    /\ consistent = {}
    /\ main_pc = "start"
    /\ connect_result = "none"
    /\ _v1 = FALSE
    /\ _stop_event = FALSE
    /\ to_register = <<>>
    /\ watch_events_pc = "unstarted"
    /\ pod_pc = "unstarted"
    /\ svc_pc = "unstarted"
    /\ pod_stream = <<>>
    /\ svc_stream = <<>>
    /\ produced = 0
    /\ delivered = <<>>
    /\ closed_at = "none"
    /\ _resource_version = 0
    /\ resource_version = 0
    /\ pod_opened = 0
    /\ svc_opened = 0
    /\ _lock = "free"
    /\ writing = [op |-> "none"]
    /\ engine = [kind |-> "none"]
    /\ stream = <<>>
    /\ cni_changes = <<>>
    /\ stopped = <<>>

\* No function has been called on its own.
NoInput == [op |-> "none"]
NoOutput == [op |-> "none"]

Init ==
    /\ InitProgram
    /\ input = NoInput
    /\ output = NoOutput

\* The index tables become ix.
SetIndex(ix) ==
    /\ _workloads' = ix.workloads
    /\ _by_hostname' = ix.by_hostname
    /\ _by_name' = ix.by_name
    /\ _by_group' = ix.by_group

\* No find_reachable is between its two lock acquisitions.
NoCall == [op |-> "none"]

\* An index write seen from a find_reachable in progress: the results the
\* new index state would give join those of the states since the call began.
Observe ==
    consistent' = IF call = NoCall THEN consistent
                  ELSE consistent \cup find_reachable(Index', call.identity)

\* _update_index(workload_id, workload): a PUT event of the watch loop, or
\* one data key of the prefix scan of _rebuild_indices. The index holds at
\* most MaxWorkloads workloads.
Update(workload_id, workload) ==
    /\ UNCHANGED <<watcher_vars, call, adapter_vars, lock_vars, runtime_vars, pure_vars>>
    /\ Cardinality(Keys(_workloads) \cup {workload_id}) <= MaxWorkloads
    /\ SetIndex(_update_index(Index, workload_id, workload))
    /\ response' = NoResponse
    /\ UNCHANGED store_vars
    /\ Observe

\* _remove_from_index(workload_id): a DELETE event of the watch loop.
Remove(workload_id) ==
    /\ UNCHANGED <<watcher_vars, call, adapter_vars, lock_vars, runtime_vars, pure_vars>>
    /\ SetIndex(_remove_from_index(Index, workload_id))
    /\ response' = NoResponse
    /\ UNCHANGED store_vars
    /\ Observe

\* The first step of _rebuild_indices: the four tables are cleared under the
\* lock; the scan that follows applies Update once per data key.
RebuildClear ==
    /\ UNCHANGED <<watcher_vars, call, adapter_vars, lock_vars, runtime_vars, pure_vars>>
    /\ SetIndex(EmptyIndex)
    /\ response' = NoResponse
    /\ UNCHANGED store_vars
    /\ Observe

\* find_reachable(caller_identity): reads the index, returns one of its results.
FindReachable(caller_identity) ==
    /\ UNCHANGED beyond_store
    /\ response' \in find_reachable(Index, caller_identity)
    /\ UNCHANGED <<index_vars, store_vars>>

Next ==
    \/ \E workload_id \in Ids : \E workload \in Values(workload_id) :
           Update(workload_id, workload)
    \/ \E workload_id \in Ids : Remove(workload_id)
    \/ RebuildClear
    \/ \E caller_identity \in Identities : FindReachable(caller_identity)

Spec == Init /\ [][Next]_vars

\* ------------------------------------------------------- claims: vocabulary

\* The stored workload of an id.
Stored(id) == Get(_workloads, id)

\* The last query returned a result (it did not raise).
Returned == response.op = "find_reachable" /\ response.status = "ok"

\* The ids of a list of workloads.
IdsOf(list) == {list[i].id : i \in DOMAIN list}

\* Two workloads share at least one isolation group.
SharesGroup(w1, w2) ==
    SetOf(w1.isolation_groups) \cap SetOf(w2.isolation_groups) # {}

\* The identities that resolve to the workload of an id.
ResolvingTo(id) ==
    {i \in Identities : _identify_workload(Index, i) # NoWorkload
                          /\ _identify_workload(Index, i).id = id}

\* ------------------------------------------------------------------ claims

\* C1: the ids find_reachable returns for a caller c are exactly the indexed
\* workloads other than c that share at least one isolation group with c
\* (none when c has no groups); sharing is not transitive.
C1_ReachableIsSharedGroup ==
    Returned =>
        /\ Len(response.reachable) = Cardinality(IdsOf(response.reachable))
        /\ IdsOf(response.reachable) =
               {id \in Keys(_workloads) :
                   id # response.caller.id /\ SharesGroup(Stored(id), response.caller)}

\* C1 witness: A reaches B, B shares a group with an indexed C (not A), and
\* C is not in A's result.
C1_Witness ==
    /\ Returned
    /\ \E b \in IdsOf(response.reachable) : \E c \in Keys(_workloads) :
           /\ c # response.caller.id
           /\ SharesGroup(Stored(b), Stored(c))
           /\ c \notin IdsOf(response.reachable)

\* C2: reachability is symmetric: when B is in the result of a query that
\* resolved to A, A is in every result of every query that resolves to B, for
\* the query server's find_reachable and for the watcher's (include_services
\* at its default, True).
C2_Symmetric ==
    /\ Returned =>
           \A b \in IdsOf(response.reachable) : \A j \in ResolvingTo(b) :
               \A r \in find_reachable(Index, j) :
                   response.caller.id \in IdsOf(r.reachable)
    /\ \A i \in Identities : \A ra \in watcher_find_reachable(Index, <<>>, i, TRUE) :
           ra.status = "ok" =>
               \A b \in IdsOf(ra.reachable) : \A j \in ResolvingTo(b) :
                   \A rb \in watcher_find_reachable(Index, <<>>, j, TRUE) :
                       ra.caller.id \in IdsOf(rb.reachable)

\* C2 witness: a query that resolved to A returned B, some identity resolves
\* to B, and A and B do not have the same groups.
C2_Witness ==
    /\ Returned
    /\ \E b \in IdsOf(response.reachable) :
           /\ ResolvingTo(b) # {}
           /\ SetOf(Stored(b).isolation_groups) # SetOf(response.caller.isolation_groups)

\* C3: the caller's id is never the id of a workload in its own result.
C3_SelfExclusion ==
    Returned => response.caller.id \notin IdsOf(response.reachable)

\* C3 witness: a caller that is a member of one of its groups' sets got a
\* non-empty result.
C3_Witness ==
    /\ Returned
    /\ response.reachable # <<>>
    /\ \E g \in DOMAIN _by_group : response.caller.id \in _by_group[g]

\* The fields find_reachable copies unchanged.
CopiedFields ==
    {"id", "name", "hostname", "runtime", "workload_type", "node", "namespace",
     "ports", "labels", "annotations", "metadata", "registrar"}

\* The addresses of a list that have a '.', and the text after their last '.'.
Suffixes(addresses) ==
    {RSplit(addresses[i])[2] : i \in {k \in DOMAIN addresses : LastDot(addresses[k]) # 0}}

\* a is a subsequence of b: a's elements, in order, among b's.
RECURSIVE IsSubSeq(_, _)
IsSubSeq(a, b) ==
    IF a = <<>> THEN TRUE
    ELSE IF b = <<>> THEN FALSE
    ELSE IF Head(a) = Head(b) THEN IsSubSeq(Tail(a), Tail(b))
    ELSE IsSubSeq(a, Tail(b))

\* C4: every returned workload R is a projection of the stored workload of
\* its id: R.isolation_groups is the caller's groups intersected with the
\* stored ones (non-empty, no group listed twice), every address of R with
\* a '.' ends in a shared group, R's addresses are among the stored ones in
\* their order, and every other field is the stored one.
C4_ProjectedView ==
    Returned =>
        \A k \in DOMAIN response.reachable :
            LET R == response.reachable[k]
                W == Stored(R.id)
                shared == SetOf(response.caller.isolation_groups)
                              \cap SetOf(W.isolation_groups)
            IN  /\ W # NoWorkload
                /\ SetOf(R.isolation_groups) = shared
                /\ Len(R.isolation_groups) = Cardinality(shared)
                /\ shared # {}
                /\ Suffixes(R.addresses) \subseteq shared
                /\ IsSubSeq(R.addresses, W.addresses)
                /\ \A f \in CopiedFields : R[f] = W[f]

\* C4 witness: a caller in Net1 only got a workload stored with groups Net1
\* and Net2, returned with group Net1 and its Net1 address alone.
C4_Witness ==
    /\ Returned
    /\ SetOf(response.caller.isolation_groups) = {Net1}
    /\ \E k \in DOMAIN response.reachable :
           /\ Stored(response.reachable[k].id).isolation_groups = <<Net1, Net2>>
           /\ Len(Stored(response.reachable[k].id).addresses) = 2
           /\ response.reachable[k].isolation_groups = <<Net1>>
           /\ response.reachable[k].addresses =
                  <<NetAddr(response.reachable[k].name, Net1)>>

\* The addresses of the Kubernetes shapes ip:port and
\* dns.svc.cluster.local:port, and the bare ip.
UnfilteredShapes == {IpPort, ClusterIpPort, SvcDns, BareIp}

\* C5 (as claimed): every address of a reachable workload that has one of the
\* Kubernetes shapes or is a bare ip is returned, in the stored order.
C5_KubernetesAddressesKept ==
    Returned =>
        \A k \in DOMAIN response.reachable :
            LET R == response.reachable[k]
            IN  SelectSeq(R.addresses, LAMBDA a : a \in UnfilteredShapes)
                    = SelectSeq(Stored(R.id).addresses, LAMBDA a : a \in UnfilteredShapes)

\* s <= t for Python strings.
StrLeq(s, t) == s = t \/ StrLess(s, t)

\* C6 (as claimed): the result is sorted by (name, id) ascending.
C6_SortedByNameThenId ==
    Returned =>
        \A i, j \in DOMAIN response.reachable :
            i < j =>
                LET a == response.reachable[i]
                    b == response.reachable[j]
                IN  \/ StrLess(a.name, b.name)
                    \/ a.name = b.name /\ StrLeq(a.id, b.id)

\* identity is a key of no table and a prefix of no id.
MatchesNothing(identity) ==
    /\ identity \notin DOMAIN _by_hostname
    /\ identity \notin DOMAIN _by_name
    /\ \A id \in Keys(_workloads) : ~StartsWith(id, identity)

\* C7: a find_reachable call raises not-found exactly when its identity is
\* no indexed hostname, no indexed name, no id and no prefix of an id, and
\* a call that raises leaves the four tables as they were.
C7_NotFoundExactly ==
    [][response'.op = "find_reachable" =>
          /\ (response'.status = "not_found") = MatchesNothing(response'.identity)
          /\ response'.status = "not_found" =>
                 UNCHANGED <<_workloads, _by_hostname, _by_name, _by_group>>]_vars

\* C7 witness: a call raised not-found on an index that holds workloads.
C7_Witness ==
    /\ response.op = "find_reachable"
    /\ response.status = "not_found"
    /\ _workloads # <<>>
    /\ _by_hostname # <<>>

\* C8: the caller find_reachable resolved is the one the first table that
\* has the identity points to, in the order hostname, name, id, id prefix:
\* a hostname hit returns the workload with that hostname whatever the name
\* and id tables hold, a name hit (no hostname hit) the workload with that
\* name or namespace/name whatever the ids are, then the workload with that
\* id, and last a workload whose id starts with the identity.
C8_IdentifyOrder ==
    Returned =>
        LET identity == response.identity
            caller == response.caller
        IN  IF identity \in DOMAIN _by_hostname
            THEN caller = Stored(_by_hostname[identity]) /\ caller.hostname = identity
            ELSE IF identity \in DOMAIN _by_name
            THEN /\ caller = Stored(_by_name[identity])
                 /\ \/ caller.name = identity
                    \/ Truthy(caller.namespace)
                         /\ NsName(caller.namespace, caller.name) = identity
            ELSE IF identity \in Keys(_workloads)
            THEN caller = Stored(identity) /\ caller.id = identity
            ELSE caller.id \in Keys(_workloads) /\ StartsWith(caller.id, identity)

\* C8 witness: the identity is one workload's hostname and another
\* workload's name, and the workload with the hostname was returned.
C8_Witness ==
    /\ Returned
    /\ response.caller.hostname = response.identity
    /\ \E id \in Keys(_workloads) :
           id # response.caller.id /\ Stored(id).name = response.identity
    /\ response.identity \in DOMAIN _by_name

\* C8 second witness: the identity is a name and another workload's id, and
\* the workload with the name was returned.
C8_WitnessNameOverId ==
    /\ Returned
    /\ response.caller.name = response.identity
    /\ response.identity \in Keys(_workloads)
    /\ response.caller.id # response.identity

\* The ids the reverse tables point to.
ReverseIds ==
    {_by_hostname[h] : h \in DOMAIN _by_hostname}
        \cup {_by_name[n] : n \in DOMAIN _by_name}
        \cup UNION {_by_group[g] : g \in DOMAIN _by_group}

\* C9: every id a reverse table (by hostname, by name, by group) holds is
\* a key of the id table.
C9_NoDanglingPointers == ReverseIds \subseteq Keys(_workloads)

\* C9 witness: workloads were updated and removed: an indexed workload's
\* hostname entry went with the removal of a later writer of that hostname,
\* while other reverse entries remain.
C9_Witness ==
    /\ \E id \in Keys(_workloads) :
           Truthy(Stored(id).hostname) /\ Stored(id).hostname \notin DOMAIN _by_hostname
    /\ _by_hostname # <<>>
    /\ _by_group # <<>>

\* C10 (as claimed): every indexed id has at least one reverse pointer.
C10_EveryIdHasAPointer == Keys(_workloads) \subseteq ReverseIds

\* ======================================================== the KV store side

\* ------------------------------------------------------------ bounds, keys

\* The largest number of writes the KV store takes.
MaxWrites == 3

\* s.replace(old, ""): every occurrence of old is removed, left to right.
RECURSIVE StrRemove(_, _)
StrRemove(s, old) ==
    IF s = <<>> THEN s
    ELSE IF StartsWith(s, old)
         THEN StrRemove(SubSeq(s, Len(old) + 1, Len(s)), old)
         ELSE <<Head(s)>> \o StrRemove(Tail(s), old)

\* s.split(sep) for a one-character sep.
RECURSIVE Split(_, _)
Split(s, sep) ==
    LET seps == {i \in DOMAIN s : s[i] = sep}
    IN  IF seps = {} THEN <<s>>
        ELSE LET i == CHOOSE i \in seps : \A j \in seps : i <= j
             IN  <<SubSeq(s, 1, i - 1)>> \o Split(SubSeq(s, i + 1, Len(s)), sep)

PREFIX ==
    <<"/", "d", "i", "s", "c", "o", "v", "e", "r", "y", "/",
      "w", "o", "r", "k", "l", "o", "a", "d", "s", "/">>

DATA == <<"d", "a", "t", "a">>
METADATA == <<"m", "e", "t", "a", "d", "a", "t", "a">>

\* f"{self.PREFIX}{workload.id}/data"
DataKey(workload_id) == PREFIX \o workload_id \o <<"/">> \o DATA

\* f"{self.PREFIX}{workload_id}/metadata"
MetadataKey(workload_id) == PREFIX \o workload_id \o <<"/">> \o METADATA

\* A prefix without the closing "/": it also covers the keys of every id
\* that workload_id is a prefix of.
WorkloadPrefixNoSlash(workload_id) == PREFIX \o workload_id

\* f"{self.PREFIX}{workload_id}/", the prefix deregister deletes.
WorkloadPrefix(workload_id) == PREFIX \o workload_id \o <<"/">>
\* Mutant of KeyParts: every key under an id is taken for its data key.
KeyPartsAllData(key) == <<Split(StrRemove(key, PREFIX), "/")[1], DATA>>

\* key.replace(self.PREFIX, "").split("/")
KeyParts(key) == Split(StrRemove(key, PREFIX), "/")

\* --------------------------------------------------------------- KV values

\* workload.to_json(): the JSON text of to_dict().
to_json(w) == [json |-> to_dict(w)]

\* A value that is not JSON, and the empty value.
Malformed == [text |-> <<"{">>]
EmptyValue == [text |-> <<>>]

\* Does json.loads(value) succeed.
Decodes(value) == "json" \in DOMAIN value

\* Workload.from_json(value), for a value that decodes.
from_json(value) == from_dict(value.json)

\* The keys of a set, in ascending order: the order of a range read.
RECURSIVE SortedKeys(_)
SortedKeys(S) ==
    IF S = {} THEN <<>>
    ELSE LET k == CHOOSE k \in S : \A x \in S \ {k} : StrLess(k, x)
         IN  <<k>> \o SortedKeys(S \ {k})

\* client.get_prefix(prefix): the (value, key) items under the prefix.
get_prefix(store, prefix) ==
    LET keys == SortedKeys({k \in DOMAIN store : StartsWith(k, prefix)})
    IN  [i \in DOMAIN keys |-> [key |-> keys[i], value |-> store[keys[i]]]]

\* The events of one write, as the watch stream delivers them.
\* Each carries the store revision of its write (kv.mod_revision).
PutEvent(key, value, mod_revision) ==
    [type |-> "PUT", key |-> key, value |-> value, mod_revision |-> mod_revision]

DeleteEvent(key, mod_revision) ==
    [type |-> "DELETE", key |-> key, value |-> EmptyValue, mod_revision |-> mod_revision]

\* The open watch stream receives the events of a write; without an open
\* stream that a thread iterates nobody receives them.
Deliver(evs) ==
    events' = IF watch_pc = "events" THEN events \o evs ELSE events

\* client.put(key, value) of any process.
KvPut(key, value) ==
    /\ revision < MaxWrites
    /\ kv' = FPut(kv, key, value)
    /\ revision' = revision + 1
    /\ Deliver(<<PutEvent(key, value, revision + 1)>>)

\* The keys of the store under a prefix, in ascending order.
KeysUnder(prefix) == SortedKeys({k \in DOMAIN kv : StartsWith(k, prefix)})

\* client.delete_prefix(prefix) of any process: one DELETE event per key
\* deleted; with no key under the prefix the store does not change.
KvDeletePrefix(prefix) ==
    LET keys == KeysUnder(prefix)
    IN  IF keys = <<>>
        THEN UNCHANGED <<kv, revision, events>>
        ELSE /\ revision < MaxWrites
             /\ kv' = [k \in DOMAIN kv \ SetOf(keys) |-> kv[k]]
             /\ revision' = revision + 1
             /\ Deliver([i \in DOMAIN keys |-> DeleteEvent(keys[i], revision + 1)])

\* ------------------------------------------------------- inputs of a store

\* The ids whose keys the store holds.
StoreIds == {Id1, Id2}

\* The workloads registered under each id.
StoreValues(id) ==
    IF id = Id1
    THEN {Container(Id1, <<"a">>, Id1, <<Net1>>), Container(Id1, <<"a">>, Id1, <<Net2>>)}
    ELSE {Container(Id2, <<"b">>, Id2, <<Net1>>)}

\* The values a data key can hold: the JSON of a workload, or text that is
\* not JSON.
DataValues(id) == {to_json(w) : w \in StoreValues(id)} \cup {Malformed}

\* json.dumps(metadata) of a scraped metadata dict.
MetadataValue == [json |-> [scraped |-> TRUE]]

\* ------------------------------------- the query server's storage: actions

\* Another process (a watcher) registers a workload, stores metadata or
\* deregisters a workload: the store changes under the server.
ExternalPut(workload_id, value) ==
    /\ UNCHANGED beyond_store
    /\ KvPut(DataKey(workload_id), value)
    /\ UNCHANGED <<index_vars, response, cursor, watch_pc, _stop_watch, rebuild_pc, results>>

ExternalPutMetadata(workload_id) ==
    /\ UNCHANGED beyond_store
    /\ KvPut(MetadataKey(workload_id), MetadataValue)
    /\ UNCHANGED <<index_vars, response, cursor, watch_pc, _stop_watch, rebuild_pc, results>>

ExternalDelete(workload_id) ==
    /\ UNCHANGED beyond_store
    /\ KeysUnder(WorkloadPrefix(workload_id)) # <<>>
    /\ KvDeletePrefix(WorkloadPrefix(workload_id))
    /\ UNCHANGED <<index_vars, response, cursor, watch_pc, _stop_watch, rebuild_pc, results>>

\* connect() up to the first step of _rebuild_indices: the four tables are
\* cleared under the lock.
ConnectClear ==
    /\ UNCHANGED beyond_store
    /\ rebuild_pc = "unconnected"
    /\ SetIndex(EmptyIndex)
    /\ response' = NoResponse
    /\ rebuild_pc' = "cleared"
    /\ UNCHANGED <<kv, revision, events, cursor, watch_pc, _stop_watch, results>>

\* results = self.client.get_prefix(self.PREFIX)
RebuildGetPrefix ==
    /\ UNCHANGED beyond_store
    /\ rebuild_pc = "cleared"
    /\ results' = get_prefix(kv, PREFIX)
    /\ rebuild_pc' = "scanning"
    /\ UNCHANGED <<index_vars, response, kv, revision, events, cursor, watch_pc, _stop_watch>>

\* One iteration of "for item in results"; the loop's end. A value that
\* does not decode raises inside the try that holds the whole loop: the scan
\* ends there, with the items not yet scanned left unread.
RebuildItem ==
    /\ UNCHANGED beyond_store
    /\ rebuild_pc = "scanning"
    /\ UNCHANGED <<kv, revision, events, cursor, watch_pc, _stop_watch>>
    /\ IF results = <<>>
       THEN /\ rebuild_pc' = "loaded"
            /\ UNCHANGED <<index_vars, response, results>>
       ELSE LET item == Head(results)
                parts == KeyParts(item.key)
            IN  IF item.key = <<>> \/ item.value = EmptyValue \/ Len(parts) < 2
                   \/ parts[2] # DATA
                THEN /\ results' = Tail(results)
                     /\ UNCHANGED <<index_vars, response, rebuild_pc>>
                ELSE IF Decodes(item.value)
                THEN /\ SetIndex(_update_index(Index, parts[1], from_json(item.value)))
                     /\ response' = NoResponse
                     /\ results' = Tail(results)
                     /\ UNCHANGED rebuild_pc
                ELSE /\ rebuild_pc' = "aborted"
                     /\ UNCHANGED <<index_vars, response, results>>

\* _start_watch(): the stop flag is cleared and the watch thread starts;
\* connect() returns.
StartWatch ==
    /\ UNCHANGED beyond_store
    /\ rebuild_pc \in {"loaded", "aborted"}
    /\ watch_pc = "unstarted"
    /\ rebuild_pc' = "connected"
    /\ results' = <<>>
    /\ _stop_watch' = FALSE
    /\ watch_pc' = "loop"
    /\ UNCHANGED <<index_vars, response, kv, revision, events, cursor>>

\* The head of "while not self._stop_watch.is_set()" and watch_prefix: the
\* loop ends, or a new watch cursor opens at the store's current revision.
WatchLoopHead ==
    /\ UNCHANGED beyond_store
    /\ watch_pc = "loop"
    /\ UNCHANGED <<index_vars, response, kv, revision, _stop_watch, rebuild_pc, results>>
    /\ IF _stop_watch
       THEN /\ watch_pc' = "exited"
            /\ UNCHANGED <<events, cursor>>
       ELSE /\ watch_pc' = "events"
            /\ cursor' = "open"
            /\ events' = <<>>

\* One iteration of "for event in events" of the server's _watch_loop. With
\* the stop flag set the loop breaks and cancel() runs. A PUT whose value
\* does not decode raises out of the for loop, past cancel(), into the
\* except clause: the stream and the events it still held are dropped.
WatchEvent ==
    /\ UNCHANGED beyond_store
    /\ watch_pc = "events"
    /\ events # <<>>
    /\ UNCHANGED <<kv, revision, _stop_watch, rebuild_pc, results>>
    /\ LET event == Head(events)
           parts == KeyParts(event.key)
       IN  IF _stop_watch
           THEN /\ cursor' = "cancelled"
                /\ watch_pc' = "loop"
                /\ events' = <<>>
                /\ UNCHANGED <<index_vars, response>>
           ELSE IF event.key = <<>> \/ Len(parts) < 2 \/ parts[2] # DATA
           THEN /\ events' = Tail(events)
                /\ UNCHANGED <<index_vars, response, cursor, watch_pc>>
           ELSE IF event.type = "DELETE"
           THEN /\ SetIndex(_remove_from_index(Index, parts[1]))
                /\ response' = NoResponse
                /\ events' = Tail(events)
                /\ UNCHANGED <<cursor, watch_pc>>
           ELSE IF event.value = EmptyValue
           THEN /\ events' = Tail(events)
                /\ UNCHANGED <<index_vars, response, cursor, watch_pc>>
           ELSE IF Decodes(event.value)
           THEN /\ SetIndex(_update_index(Index, parts[1], from_json(event.value)))
                /\ response' = NoResponse
                /\ events' = Tail(events)
                /\ UNCHANGED <<cursor, watch_pc>>
           ELSE /\ watch_pc' = "backoff"
                /\ events' = <<>>
                /\ UNCHANGED <<index_vars, response, cursor>>

\* The stream ends (the store closes it, the watch expires): the for loop
\* ends, cancel() runs, the while loop goes round.
WatchStreamEnd ==
    /\ UNCHANGED beyond_store
    /\ watch_pc = "events"
    /\ events = <<>>
    /\ cursor' = "cancelled"
    /\ watch_pc' = "loop"
    /\ UNCHANGED <<index_vars, response, kv, revision, events, _stop_watch, rebuild_pc, results>>

\* The stream raises (connection lost): the except clause is entered, past
\* cancel().
WatchStreamError ==
    /\ UNCHANGED beyond_store
    /\ watch_pc = "events"
    /\ watch_pc' = "backoff"
    /\ events' = <<>>
    /\ UNCHANGED <<index_vars, response, kv, revision, cursor, _stop_watch, rebuild_pc, results>>

\* The except clause and the next turn of the while loop: with the stop flag
\* set the loop ends; otherwise it sleeps one second and opens a new watch
\* cursor at the store's current revision.
WatchBackoff ==
    /\ UNCHANGED beyond_store
    /\ watch_pc = "backoff"
    /\ UNCHANGED <<index_vars, response, kv, revision, _stop_watch, rebuild_pc, results>>
    /\ IF _stop_watch
       THEN /\ watch_pc' = "exited"
            /\ UNCHANGED <<events, cursor>>
       ELSE /\ watch_pc' = "events"
            /\ cursor' = "open"
            /\ events' = <<>>

\* close(): the stop flag is set (the join that follows waits at most 5 s).
Close ==
    /\ UNCHANGED beyond_store
    /\ rebuild_pc = "connected"
    /\ ~_stop_watch
    /\ _stop_watch' = TRUE
    /\ UNCHANGED <<index_vars, response, kv, revision, events, cursor, watch_pc, rebuild_pc, results>>

NextServer ==
    \/ \E workload_id \in StoreIds : \E value \in DataValues(workload_id) :
           ExternalPut(workload_id, value)
    \/ ExternalPutMetadata(Id1)
    \/ \E workload_id \in StoreIds : ExternalDelete(workload_id)
    \/ ConnectClear
    \/ RebuildGetPrefix
    \/ RebuildItem
    \/ StartWatch
    \/ WatchLoopHead
    \/ WatchEvent
    \/ WatchStreamEnd
    \/ WatchStreamError
    \/ WatchBackoff
    \/ Close

\* The query server's storage against a store that other processes write.
SpecServer == Init /\ [][NextServer]_vars

\* ------------------------------------------- claims on the server's storage

\* The ids whose data key the store holds with a value that decodes.
StoredIds == {id \in StoreIds : DataKey(id) \in DOMAIN kv /\ Decodes(kv[DataKey(id)])}

\* The index holds exactly the workloads of the store's data keys.
IndexMatchesStore ==
    /\ Keys(_workloads) = StoredIds
    /\ \A id \in StoredIds : Get(_workloads, id) = from_json(kv[DataKey(id)])

\* C11: when the watch stream has failed, the loop resumes watching only
\* after a rebuild, so the index it resumes with holds exactly the workloads
\* of the store's data keys: a workload whose key was deleted while the
\* stream was down is gone from the index.
C11_ResyncAfterWatchFailure ==
    [][(watch_pc = "backoff" /\ watch_pc' = "events") => IndexMatchesStore']_vars

\* An item of a prefix scan that is a data key with a value that decodes.
WellFormedData(item) ==
    /\ Len(KeyParts(item.key)) >= 2
    /\ KeyParts(item.key)[2] = DATA
    /\ Decodes(item.value)

\* An event that is a PUT of a data key with a value that does not decode.
MalformedPut(event) ==
    /\ event.type = "PUT"
    /\ Len(KeyParts(event.key)) >= 2
    /\ KeyParts(event.key)[2] = DATA
    /\ event.value # EmptyValue
    /\ ~Decodes(event.value)

\* C13: a malformed value does not block indexing. When the rebuild's scan
\* has ended, no well-formed data key of the scan is left unindexed, whether
\* it came before or after a malformed one; and the watch loop, handling a
\* malformed PUT, goes on to the events that follow it.
C13_MalformedDoesNotBlock ==
    /\ [](rebuild_pc \in {"loaded", "aborted"} =>
            \A i \in DOMAIN results :
                WellFormedData(results[i]) =>
                    Get(_workloads, KeyParts(results[i].key)[1]) = from_json(results[i].value))
    /\ [][(WatchEvent /\ ~_stop_watch /\ MalformedPut(Head(events))) =>
            (watch_pc' = "events" /\ events' = Tail(events))]_vars

\* C16: once close() has set the stop flag the index is not written again,
\* the event the loop handles next makes it break and cancel the cursor, and
\* the loop never ends with its cursor still open.
C16_WatchLoopTermination ==
    /\ [][(rebuild_pc = "connected" /\ _stop_watch) => UNCHANGED index_vars]_vars
    /\ [][(WatchEvent /\ _stop_watch) => (watch_pc' = "loop" /\ cursor' = "cancelled")]_vars
    /\ [](watch_pc = "exited" => cursor # "open")

\* ================================================== the watcher's storage
\* (src/discovery/watcher/storage/etcd.py; its _start_watch, the frame of
\* its _watch_loop and its close() are the query server's, line for line.)

\* EventType values.
ADDED == "added"
MODIFIED == "modified"
DELETED == "deleted"
NETWORK_CHANGED == "network_changed"
EventTypes == {ADDED, MODIFIED, DELETED, NETWORK_CHANGED}

\* No register or deregister is between its KV write and its index write.
NoPending == [op |-> "none"]

\* The revision the index's entry of an id comes from, 0 for none.
Applied(id) == IF id \in DOMAIN applied THEN applied[id] ELSE 0

\* self._metadata.pop(workload_id, None) at the end of the watcher's
\* _remove_from_index, which returns early when the id is not indexed.
MetadataAfterRemove(workloads, metadata, workload_id) ==
    IF workload_id \in Keys(workloads) /\ workload_id \in DOMAIN metadata
    THEN FDel(metadata, workload_id)
    ELSE metadata

\* _handle_event(event_type, workload) up to the KV write of register
\* (client.put of the data key) or deregister (client.delete_prefix).
HandleEvent(event_type, workload) ==
    /\ watch_pc # "unstarted"
    /\ pending = NoPending
    /\ IF event_type \in {ADDED, MODIFIED, NETWORK_CHANGED}
       THEN /\ KvPut(DataKey(workload.id), to_json(workload))
            /\ pending' = [op |-> "register", workload |-> workload,
                           revision |-> revision + 1]
       ELSE /\ KvDeletePrefix(WorkloadPrefix(workload.id))
            /\ pending' = [op |-> "deregister", workload |-> workload,
                           revision |-> revision']
    /\ UNCHANGED <<index_vars, response, cursor, watch_pc, _stop_watch, rebuild_pc, results>>
    /\ UNCHANGED <<_metadata, applied, query_vars, adapter_vars, lock_vars, runtime_vars, pure_vars>>

\* The rest of register / deregister: the local index is written at once
\* ("watch will also trigger").
HandleEventIndex ==
    /\ pending # NoPending
    /\ LET workload_id == pending.workload.id
       IN  /\ IF pending.op = "register"
              THEN SetIndex(_update_index(Index, workload_id, pending.workload))
              ELSE SetIndex(_remove_from_index(Index, workload_id))
           /\ _metadata' = MetadataAfterRemove(_workloads, _metadata, workload_id)
           /\ applied' = FPut(applied, workload_id, pending.revision)
    /\ pending' = NoPending
    /\ response' = NoResponse
    /\ UNCHANGED <<store_vars, query_vars, adapter_vars, lock_vars, runtime_vars, pure_vars>>

\* set_metadata(workload_id, metadata)
SetMetadata(workload_id) ==
    /\ watch_pc # "unstarted"
    /\ KvPut(MetadataKey(workload_id), MetadataValue)
    /\ _metadata' = FPut(_metadata, workload_id, MetadataValue.json)
    /\ UNCHANGED <<index_vars, response, cursor, watch_pc, _stop_watch, rebuild_pc, results>>
    /\ UNCHANGED <<pending, applied, query_vars, adapter_vars, lock_vars, runtime_vars, pure_vars>>

\* The tables are cleared under the lock, the first step of rebuild_indices.
ClearTables ==
    /\ SetIndex(EmptyIndex)
    /\ _metadata' = <<>>
    /\ applied' = <<>>
    /\ response' = NoResponse
    /\ rebuild_pc' = "cleared"
    /\ UNCHANGED <<kv, revision, events, cursor, watch_pc, _stop_watch, results>>
    /\ UNCHANGED <<pending, query_vars, adapter_vars, lock_vars, runtime_vars, pure_vars>>

\* connect() of the watcher's storage, up to the clear of rebuild_indices.
WatcherConnectClear ==
    /\ rebuild_pc = "unconnected"
    /\ ClearTables

\* rebuild_indices() called on the connected storage ("Called on startup
\* and after errors"), up to its clear.
RebuildIndicesClear ==
    /\ rebuild_pc = "connected"
    /\ ClearTables

\* One iteration of "for item in results" of rebuild_indices; the loop's
\* end. A metadata key fills _metadata. A value that does not decode ends
\* the scan, as in the query server.
WatcherRebuildItem ==
    /\ rebuild_pc = "scanning"
    /\ UNCHANGED <<kv, revision, events, cursor, watch_pc, _stop_watch>>
    /\ UNCHANGED <<pending, applied, query_vars, adapter_vars, lock_vars, runtime_vars, pure_vars>>
    /\ IF results = <<>>
       THEN /\ rebuild_pc' = "loaded"
            /\ UNCHANGED <<index_vars, response, results, _metadata>>
       ELSE LET item == Head(results)
                parts == KeyParts(item.key)
            IN  IF item.key = <<>> \/ item.value = EmptyValue \/ Len(parts) < 2
                   \/ parts[2] \notin {DATA, METADATA}
                THEN /\ results' = Tail(results)
                     /\ UNCHANGED <<index_vars, response, rebuild_pc, _metadata>>
                ELSE IF ~Decodes(item.value)
                THEN /\ rebuild_pc' = "aborted"
                     /\ UNCHANGED <<index_vars, response, results, _metadata>>
                ELSE IF parts[2] = DATA
                THEN /\ SetIndex(_update_index(Index, parts[1], from_json(item.value)))
                     /\ _metadata' = MetadataAfterRemove(_workloads, _metadata, parts[1])
                     /\ response' = NoResponse
                     /\ results' = Tail(results)
                     /\ UNCHANGED rebuild_pc
                ELSE /\ _metadata' = FPut(_metadata, parts[1], item.value.json)
                     /\ results' = Tail(results)
                     /\ UNCHANGED <<index_vars, response, rebuild_pc>>

\* rebuild_indices() returns to a caller other than connect().
RebuildReturn ==
    /\ rebuild_pc \in {"loaded", "aborted"}
    /\ watch_pc # "unstarted"
    /\ rebuild_pc' = "connected"
    /\ results' = <<>>
    /\ UNCHANGED <<index_vars, response, kv, revision, events, cursor, watch_pc, _stop_watch>>
    /\ UNCHANGED beyond_store

\* One iteration of "for event in events" of the watcher's _watch_loop: data
\* and metadata keys, PUT and DELETE.
WatcherWatchEvent ==
    /\ watch_pc = "events"
    /\ events # <<>>
    /\ UNCHANGED <<kv, revision, _stop_watch, rebuild_pc, results>>
    /\ UNCHANGED <<pending, query_vars, adapter_vars, lock_vars, runtime_vars, pure_vars>>
    /\ LET event == Head(events)
           parts == KeyParts(event.key)
       IN  IF _stop_watch
           THEN /\ cursor' = "cancelled"
                /\ watch_pc' = "loop"
                /\ events' = <<>>
                /\ UNCHANGED <<index_vars, response, _metadata, applied>>
           ELSE IF event.key = <<>> \/ Len(parts) < 2 \/ parts[2] \notin {DATA, METADATA}
                   \/ (event.type # "DELETE" /\ event.value = EmptyValue)
           THEN /\ events' = Tail(events)
                /\ UNCHANGED <<index_vars, response, cursor, watch_pc, _metadata, applied>>
           ELSE IF event.type = "DELETE" /\ parts[2] = DATA
           THEN /\ SetIndex(_remove_from_index(Index, parts[1]))
                /\ _metadata' = MetadataAfterRemove(_workloads, _metadata, parts[1])
                /\ applied' = FPut(applied, parts[1], event.mod_revision)
                /\ response' = NoResponse
                /\ events' = Tail(events)
                /\ UNCHANGED <<cursor, watch_pc>>
           ELSE IF event.type = "DELETE"
           THEN /\ _metadata' = FDel(_metadata, parts[1])
                /\ events' = Tail(events)
                /\ UNCHANGED <<index_vars, response, cursor, watch_pc, applied>>
           ELSE IF ~Decodes(event.value)
           THEN /\ watch_pc' = "backoff"
                /\ events' = <<>>
                /\ UNCHANGED <<index_vars, response, cursor, _metadata, applied>>
           ELSE IF parts[2] = DATA
           THEN /\ SetIndex(_update_index(Index, parts[1], from_json(event.value)))
                /\ _metadata' = MetadataAfterRemove(_workloads, _metadata, parts[1])
                /\ applied' = FPut(applied, parts[1], event.mod_revision)
                /\ response' = NoResponse
                /\ events' = Tail(events)
                /\ UNCHANGED <<cursor, watch_pc>>
           ELSE /\ _metadata' = FPut(_metadata, parts[1], event.value.json)
                /\ events' = Tail(events)
                /\ UNCHANGED <<index_vars, response, cursor, watch_pc, applied>>

\* get(workload_id): the indexed workload, with its metadata attached to it.
WatcherGet(workload_id) ==
    /\ watch_pc # "unstarted"
    /\ LET workload == Get(_workloads, workload_id)
           attached == [workload EXCEPT !.metadata =
                            IF workload_id \in DOMAIN _metadata
                            THEN _metadata[workload_id] ELSE None]
       IN  IF workload = NoWorkload
           THEN /\ response' = [op |-> "get", workload_id |-> workload_id, workload |-> NoWorkload]
                /\ UNCHANGED _workloads
           ELSE /\ response' = [op |-> "get", workload_id |-> workload_id, workload |-> attached]
                /\ _workloads' = Put(_workloads, workload_id, attached)
    /\ UNCHANGED <<_by_hostname, _by_name, _by_group, store_vars, beyond_store>>

NextWatcher ==
    \/ \E event_type \in EventTypes : \E workload_id \in StoreIds :
           \E workload \in StoreValues(workload_id) : HandleEvent(event_type, workload)
    \/ HandleEventIndex
    \/ SetMetadata(Id1)
    \/ WatcherConnectClear
    \/ RebuildGetPrefix
    \/ WatcherRebuildItem
    \/ StartWatch
    \/ WatchLoopHead
    \/ WatcherWatchEvent
    \/ WatchStreamEnd
    \/ WatchStreamError
    \/ WatchBackoff
    \/ Close

\* The watcher's storage: the thread that handles adapter events and the
\* watch loop, on one store.
SpecWatcher == Init /\ [][NextWatcher]_vars

NextRebuild ==
    \/ \E event_type \in EventTypes : \E workload_id \in StoreIds :
           \E workload \in StoreValues(workload_id) : HandleEvent(event_type, workload)
    \/ HandleEventIndex
    \/ WatcherConnectClear
    \/ RebuildIndicesClear
    \/ RebuildGetPrefix
    \/ WatcherRebuildItem
    \/ StartWatch
    \/ RebuildReturn
    \/ WatchLoopHead
    \/ WatcherWatchEvent
    \/ \E workload_id \in StoreIds : WatcherGet(workload_id)

\* The watcher's storage with a caller of rebuild_indices and a reader.
SpecRebuild == Init /\ [][NextRebuild]_vars

\* ------------------------------------------ claims on the watcher's storage

\* C14: per-key monotonicity. For each workload id the index's entry follows
\* the store's order of writes of that key: the revision it comes from never
\* goes down, so the index never returns to an older value and never
\* re-adds a workload whose later deletion it has applied.
C14_PerKeyMonotonic ==
    [][\A id \in StoreIds : Applied(id)' >= Applied(id)]_vars

\* The keys of a store that belong to an id: /discovery/workloads/{id}/...
KeysOf(store, id) == {k \in DOMAIN store : KeyParts(k)[1] = id}

\* The store without the keys of an id.
Without(store, id) == [k \in DOMAIN store \ KeysOf(store, id) |-> store[k]]

C12_RebuildKeepsReadersView ==
    [][(RebuildIndicesClear \/ RebuildGetPrefix \/ WatcherRebuildItem \/ RebuildReturn) =>
          \A id \in Keys(_workloads) \cap StoredIds : id \in Keys(_workloads')]_vars

\* ================================ a query against concurrent index writes

\* The identities of the queries: the ids, and one that matches nothing.
QueryIdentities == StoreIds \cup {<<"z", "z">>}


\* find_reachable up to the lock: caller = self._identify_workload(...),
\* which takes and releases the lock itself; ValueError when it finds none.
Identify(caller_identity) ==
    /\ call = NoCall
    /\ LET caller == _identify_workload(Index, caller_identity)
       IN  IF caller = NoWorkload
           THEN /\ response' = NotFound(caller_identity)
                /\ UNCHANGED <<call, consistent>>
           ELSE /\ response' = NoResponse
                /\ call' = [op |-> "find_reachable", identity |-> caller_identity,
                            caller |-> caller]
                /\ consistent' = find_reachable(Index, caller_identity)
    /\ UNCHANGED <<index_vars, store_vars, watcher_vars, adapter_vars, lock_vars, runtime_vars, pure_vars>>

\* The rest of find_reachable, under "with self._lock".
UnderLock ==
    /\ call # NoCall
    /\ response' \in reachable_under_lock(Index, call.identity, call.caller)
    /\ call' = NoCall
    /\ consistent' = {}
    /\ UNCHANGED <<index_vars, store_vars, watcher_vars, adapter_vars, lock_vars, runtime_vars, pure_vars>>

NextQuery ==
    \/ \E workload_id \in StoreIds : \E workload \in StoreValues(workload_id) :
           Update(workload_id, workload)
    \/ \E workload_id \in StoreIds : Remove(workload_id)
    \/ \E caller_identity \in QueryIdentities : Identify(caller_identity)
    \/ UnderLock

\* find_reachable of an HTTP thread while the watch loop writes the index.
SpecQuery == Init /\ [][NextQuery]_vars

\* C15: the result find_reachable returns is a result that one index state
\* between the call and the return gives: caller and reachable list
\* together.
C15_OneConsistentState == [][UnderLock => response' \in consistent]_vars

\* ============================== the watcher daemon and its runtime adapter

\* The number of events the runtime produces.
MaxEvents == 3

\* config.runtime: the three runtimes and a name that is none of them.
RuntimeTypes == {"docker", "containerd", "kubernetes", "unknown"}

\* How KubernetesAdapter.connect() ends: it returns True; loading the
\* configuration raises (self._v1 stays None); or the configuration loads,
\* self._v1 is set and the verification list_namespace(limit=1) raises. In
\* the last two cases the exception is caught and connect() returns False.
ConnectOutcomes == {"ok", "no_config", "unverified"}

\* The objects of the cluster: one pod, one service.
PodNamed(uid, name, phase) == [uid |-> uid, name |-> name, phase |-> phase]
Pod(phase) == PodNamed(Id1, <<"p">>, phase)
Svc == [uid |-> Id2, name |-> <<"s">>]

\* _pod_to_workload(pod) and _service_to_workload(svc)
_pod_to_workload(pod) == Namespaced(pod.uid, pod.name, POD, <<IpPort>>)
_service_to_workload(svc) ==
    Namespaced(svc.uid, svc.name, SERVICE, <<ClusterIpPort, SvcDns>>)

\* The events the API server sends on the pod watch and the service watch.
PodEvents ==
    {[type |-> "ADDED", object |-> Pod("Running")],
     [type |-> "MODIFIED", object |-> Pod("Running")],
     [type |-> "MODIFIED", object |-> Pod("Succeeded")],
     [type |-> "DELETED", object |-> Pod("Running")],
     [type |-> "ADDED", object |-> Pod("Pending")]}
SvcEvents ==
    {[type |-> "ADDED", object |-> Svc], [type |-> "DELETED", object |-> Svc]}

\* What the API server returns for the pod list and the service list of
\* list_workloads(): the pods of the cluster, in any phase.
PodListings ==
    {<<>>, <<Pod("Running")>>,
     <<PodNamed(Id3, <<"q">>, "Pending"), Pod("Running")>>,
     <<PodNamed(Id4, <<"r">>, "Succeeded")>>}
SvcListings == {<<>>, <<Svc>>}

\* _pod_to_workload and _service_to_workload of each item of a list.
PodWorkloads(items) == [i \in DOMAIN items |-> _pod_to_workload(items[i])]
SvcWorkloads(items) == [i \in DOMAIN items |-> _service_to_workload(items[i])]

\* Mutant of list_workloads: pods of every phase are listed.
ListEveryPhase(pod_items, svc_items) ==
    PodWorkloads(pod_items) \o SvcWorkloads(svc_items)

\* list_workloads() of a connected adapter: the pods whose phase is
\* Running, then (include_services) the services.
list_workloads(pod_items, svc_items) ==
    LET IsRunning(pod) == pod.phase = "Running"
    IN  PodWorkloads(SelectSeq(pod_items, IsRunning)) \o SvcWorkloads(svc_items)

\* A call of the callback: the production number of the event it is for,
\* the event type and the id of the workload it is called with.
Call(seq, event_type, id) == [seq |-> seq, event_type |-> event_type, id |-> id]

\* Mutant of PodCallbackType: a pod that is not running is reported too.
PodCallbackAnyPhase(event) ==
    CASE event.type = "ADDED" -> ADDED
      [] event.type = "MODIFIED" /\ event.object.phase \in {"Succeeded", "Failed"} -> DELETED
      [] event.type = "MODIFIED" -> MODIFIED
      [] event.type = "DELETED" -> DELETED
      [] OTHER -> "none"

\* The event type _watch_pods calls the callback with, "none" for no call.
PodCallbackType(event) ==
    CASE event.type = "ADDED" /\ event.object.phase = "Running" -> ADDED
      [] event.type = "MODIFIED" /\ event.object.phase = "Running" -> MODIFIED
      [] event.type = "MODIFIED" /\ event.object.phase \in {"Succeeded", "Failed"} -> DELETED
      [] event.type = "DELETED" -> DELETED
      [] OTHER -> "none"

\* The same for _watch_services.
SvcCallbackType(event) ==
    CASE event.type = "ADDED" -> ADDED
      [] event.type = "MODIFIED" -> MODIFIED
      [] event.type = "DELETED" -> DELETED
      [] OTHER -> "none"

\* _handle_event(event_type, workload): storage.register(workload) or
\* storage.deregister(workload.id), the KV write and the index write.
_handle_event(event_type, workload) ==
    /\ IF event_type \in {ADDED, MODIFIED, NETWORK_CHANGED}
       THEN /\ KvPut(DataKey(workload.id), to_json(workload))
            /\ SetIndex(_update_index(Index, workload.id, workload))
       ELSE /\ KvDeletePrefix(WorkloadPrefix(workload.id))
            /\ SetIndex(_remove_from_index(Index, workload.id))
    /\ _metadata' = MetadataAfterRemove(_workloads, _metadata, workload.id)
    /\ applied' = FPut(applied, workload.id, revision')
    /\ response' = NoResponse
    /\ UNCHANGED <<cursor, watch_pc, _stop_watch, rebuild_pc, results, pending,
                   query_vars, lock_vars, runtime_vars, pure_vars>>

\* resource_version=None: a watch opened with no resume token.
NoToken == 0

\* The resume tokens of the two watches and what their streams were opened
\* with.
token_vars == <<_resource_version, resource_version, pod_opened, svc_opened>>

\* Mutants: the token is kept on 410 Gone; an event leaves the token as it
\* was.
TokenKept(token) == token
TokenStale(token, item) == token

\* "self._resource_version = None" / "resource_version = None" of the
\* handler of ApiException with status 410.
TokenAfterGone(token) == NoToken

\* "self._resource_version = pod.metadata.resource_version" and the same
\* of a service: the token after an event. The API server numbers its
\* events with one counter, the resource version.
TokenAfterEvent(token, item) == item.seq

\* What the steps of the adapter's threads leave alone.
NoStorageChange ==
    UNCHANGED <<index_vars, response, store_vars, watcher_vars, query_vars, lock_vars, runtime_vars, pure_vars>>

\* create_runtime(config) and the test "if not self.runtime" of start(),
\* after create_storage has connected the storage. DockerAdapter and
\* ContainerdAdapter leave abstract methods of RuntimeAdapter undefined
\* (get_workload, stop_watch), so constructing them raises TypeError. The
\* value connect() returns is dropped.
CreateRuntime(runtime_type, outcome) ==
    /\ UNCHANGED token_vars
    /\ main_pc = "start"
    /\ rebuild_pc = "connected"
    /\ CASE runtime_type \in {"docker", "containerd"} ->
              /\ main_pc' = "raised"
              /\ UNCHANGED <<connect_result, _v1>>
         [] runtime_type = "kubernetes" ->
              /\ _v1' = (outcome # "no_config")
              /\ connect_result' = IF outcome = "ok" THEN "True" ELSE "False"
              /\ main_pc' = "created"
         [] OTHER ->
              /\ main_pc' = "exited"
              /\ UNCHANGED <<connect_result, _v1>>
    /\ UNCHANGED <<_stop_event, to_register, watch_events_pc, pod_pc, svc_pc,
                   pod_stream, svc_stream, produced, delivered, closed_at>>
    /\ NoStorageChange

\* _sync_initial_state(): workloads = self.runtime.list_workloads(), which
\* is [] without self._v1.
SyncList(pod_items, svc_items) ==
    /\ UNCHANGED token_vars
    /\ main_pc = "created"
    /\ main_pc' = "sync"
    /\ to_register' = IF _v1 THEN list_workloads(pod_items, svc_items) ELSE <<>>
    /\ UNCHANGED <<connect_result, _v1, _stop_event, watch_events_pc, pod_pc, svc_pc,
                   pod_stream, svc_stream, produced, delivered, closed_at>>
    /\ NoStorageChange

\* One iteration of "for workload in workloads: self.storage.register".
SyncRegister ==
    /\ UNCHANGED token_vars
    /\ main_pc = "sync"
    /\ to_register # <<>>
    /\ _handle_event(ADDED, Head(to_register))
    /\ to_register' = Tail(to_register)
    /\ UNCHANGED <<main_pc, connect_result, _v1, _stop_event, watch_events_pc, pod_pc,
                   svc_pc, pod_stream, svc_stream, produced, delivered, closed_at>>

\* _start_watcher(): the thread of runtime.watch_events starts; start()
\* goes on to serve.
StartWatcher ==
    /\ UNCHANGED token_vars
    /\ main_pc = "sync"
    /\ to_register = <<>>
    /\ main_pc' = "serving"
    /\ watch_events_pc' = "started"
    /\ UNCHANGED <<connect_result, _v1, _stop_event, to_register, pod_pc, svc_pc,
                   pod_stream, svc_stream, produced, delivered, closed_at>>
    /\ NoStorageChange

\* stop(): runtime.stop_watch(), server.stop(), storage.close().
Stop ==
    /\ UNCHANGED token_vars
    /\ main_pc = "serving"
    /\ main_pc' = "stopped"
    /\ _stop_event' = TRUE
    /\ _stop_watch' = TRUE
    /\ UNCHANGED <<connect_result, _v1, to_register, watch_events_pc, pod_pc, svc_pc,
                   pod_stream, svc_stream, produced, delivered, closed_at>>
    /\ UNCHANGED <<index_vars, response, kv, revision, events, cursor, watch_pc,
                   rebuild_pc, results, watcher_vars, query_vars, lock_vars, runtime_vars, pure_vars>>

\* close() of the adapter, by whoever holds it.
AdapterClose ==
    /\ UNCHANGED token_vars
    /\ main_pc \in {"created", "sync", "serving", "stopped"}
    /\ closed_at = "none"
    /\ _stop_event' = TRUE
    /\ _v1' = FALSE
    /\ closed_at' = watch_events_pc
    /\ UNCHANGED <<main_pc, connect_result, to_register, watch_events_pc, pod_pc, svc_pc,
                   pod_stream, svc_stream, produced, delivered>>
    /\ NoStorageChange

\* watch_events: "if not self._v1: return".
WatchEventsCheck ==
    /\ UNCHANGED token_vars
    /\ watch_events_pc = "started"
    /\ watch_events_pc' = IF _v1 THEN "checked" ELSE "returned"
    /\ UNCHANGED <<main_pc, connect_result, _v1, _stop_event, to_register, pod_pc, svc_pc,
                   pod_stream, svc_stream, produced, delivered, closed_at>>
    /\ NoStorageChange

\* watch_events: self._stop_event.clear(), then the pod thread and (with
\* include_services, the default) the service thread start.
WatchEventsClear ==
    /\ UNCHANGED token_vars
    /\ watch_events_pc = "checked"
    /\ _stop_event' = FALSE
    /\ pod_pc' = "loop"
    /\ svc_pc' = "loop"
    /\ watch_events_pc' = "waiting"
    /\ UNCHANGED <<main_pc, connect_result, _v1, to_register, pod_stream, svc_stream,
                   produced, delivered, closed_at>>
    /\ NoStorageChange

\* watch_events: "while not self._stop_event.is_set(): wait(1)" ends.
WatchEventsWait ==
    /\ UNCHANGED token_vars
    /\ watch_events_pc = "waiting"
    /\ _stop_event
    /\ watch_events_pc' = "returned"
    /\ UNCHANGED <<main_pc, connect_result, _v1, _stop_event, to_register, pod_pc, svc_pc,
                   pod_stream, svc_stream, produced, delivered, closed_at>>
    /\ NoStorageChange

\* The API server produces an event of a pod or of a service; the watch of
\* its kind will deliver it (a watch resumes from its resource version).
Produce(kind, event) ==
    /\ UNCHANGED token_vars
    /\ produced < MaxEvents
    /\ produced' = produced + 1
    /\ IF kind = "pod"
       THEN /\ pod_stream' = Append(pod_stream, [seq |-> produced + 1, event |-> event])
            /\ UNCHANGED svc_stream
       ELSE /\ svc_stream' = Append(svc_stream, [seq |-> produced + 1, event |-> event])
            /\ UNCHANGED pod_stream
    /\ UNCHANGED <<main_pc, connect_result, _v1, _stop_event, to_register,
                   watch_events_pc, pod_pc, svc_pc, delivered, closed_at>>
    /\ NoStorageChange

\* The head of "while not self._stop_event.is_set()" of a watch thread and
\* w.stream(self._v1.list_...): the thread ends, or its stream opens.
\* Without self._v1 the call raises AttributeError, which "except
\* Exception" catches: the thread goes to wait.
LoopHead(pc) ==
    IF _stop_event THEN "exited" ELSE IF _v1 THEN "stream" ELSE "backoff"

PodLoopHead ==
    /\ pod_pc = "loop"
    /\ pod_pc' = LoopHead(pod_pc)
    /\ pod_opened' = IF LoopHead(pod_pc) = "stream" THEN _resource_version ELSE pod_opened
    /\ UNCHANGED <<main_pc, connect_result, _v1, _stop_event, to_register,
                   watch_events_pc, svc_pc, pod_stream, svc_stream, produced,
                   delivered, closed_at, _resource_version, resource_version, svc_opened>>
    /\ NoStorageChange

SvcLoopHead ==
    /\ svc_pc = "loop"
    /\ svc_pc' = LoopHead(svc_pc)
    /\ svc_opened' = IF LoopHead(svc_pc) = "stream" THEN resource_version ELSE svc_opened
    /\ UNCHANGED <<main_pc, connect_result, _v1, _stop_event, to_register,
                   watch_events_pc, pod_pc, pod_stream, svc_stream, produced,
                   delivered, closed_at, _resource_version, resource_version, pod_opened>>
    /\ NoStorageChange

\* One iteration of "for event in stream" of _watch_pods: break when the
\* stop flag is set, else the token is updated and the callback called for
\* the event, if it has one.
PodEvent ==
    /\ pod_pc = "stream"
    /\ pod_stream # <<>>
    /\ pod_stream' = Tail(pod_stream)
    /\ LET item == Head(pod_stream)
           event_type == PodCallbackType(item.event)
       IN  IF _stop_event
           THEN /\ pod_pc' = "loop"
                /\ UNCHANGED <<delivered, _resource_version>>
                /\ NoStorageChange
           ELSE /\ UNCHANGED pod_pc
                /\ _resource_version' = TokenAfterEvent(_resource_version, item)
                /\ IF event_type = "none"
                   THEN /\ UNCHANGED delivered
                        /\ NoStorageChange
                   ELSE /\ _handle_event(event_type, _pod_to_workload(item.event.object))
                        /\ delivered' = Append(delivered, Call(item.seq, event_type, item.event.object.uid))
    /\ UNCHANGED <<main_pc, connect_result, _v1, _stop_event, to_register,
                   watch_events_pc, svc_pc, svc_stream, produced, closed_at,
                   resource_version, pod_opened, svc_opened>>

\* The same of _watch_services.
SvcEvent ==
    /\ svc_pc = "stream"
    /\ svc_stream # <<>>
    /\ svc_stream' = Tail(svc_stream)
    /\ LET item == Head(svc_stream)
           event_type == SvcCallbackType(item.event)
       IN  IF _stop_event
           THEN /\ svc_pc' = "loop"
                /\ UNCHANGED <<delivered, resource_version>>
                /\ NoStorageChange
           ELSE /\ UNCHANGED svc_pc
                /\ resource_version' = TokenAfterEvent(resource_version, item)
                /\ IF event_type = "none"
                   THEN /\ UNCHANGED delivered
                        /\ NoStorageChange
                   ELSE /\ _handle_event(event_type, _service_to_workload(item.event.object))
                        /\ delivered' = Append(delivered, Call(item.seq, event_type, item.event.object.uid))
    /\ UNCHANGED <<main_pc, connect_result, _v1, _stop_event, to_register,
                   watch_events_pc, pod_pc, pod_stream, produced, closed_at,
                   _resource_version, pod_opened, svc_opened>>

\* ApiException with status 410 (the resume token is too old) from a watch:
\* the token is cleared and the loop goes round at once. The events the
\* stream had not delivered are gone with the token.
PodWatchGone ==
    /\ pod_pc = "stream"
    /\ _resource_version' = TokenAfterGone(_resource_version)
    /\ pod_stream' = <<>>
    /\ pod_pc' = "loop"
    /\ UNCHANGED <<main_pc, connect_result, _v1, _stop_event, to_register,
                   watch_events_pc, svc_pc, svc_stream, produced, delivered,
                   closed_at, resource_version, pod_opened, svc_opened>>
    /\ NoStorageChange

SvcWatchGone ==
    /\ svc_pc = "stream"
    /\ resource_version' = TokenAfterGone(resource_version)
    /\ svc_stream' = <<>>
    /\ svc_pc' = "loop"
    /\ UNCHANGED <<main_pc, connect_result, _v1, _stop_event, to_register,
                   watch_events_pc, pod_pc, pod_stream, produced, delivered,
                   closed_at, _resource_version, pod_opened, svc_opened>>
    /\ NoStorageChange

\* Another ApiException, or another exception: "if not
\* self._stop_event.is_set(): self._stop_event.wait(5)".
AfterError == IF _stop_event THEN "loop" ELSE "backoff"

PodWatchError ==
    /\ pod_pc = "stream"
    /\ pod_pc' = AfterError
    /\ UNCHANGED token_vars
    /\ UNCHANGED <<main_pc, connect_result, _v1, _stop_event, to_register,
                   watch_events_pc, svc_pc, pod_stream, svc_stream, produced,
                   delivered, closed_at>>
    /\ NoStorageChange

SvcWatchError ==
    /\ svc_pc = "stream"
    /\ svc_pc' = AfterError
    /\ UNCHANGED token_vars
    /\ UNCHANGED <<main_pc, connect_result, _v1, _stop_event, to_register,
                   watch_events_pc, pod_pc, pod_stream, svc_stream, produced,
                   delivered, closed_at>>
    /\ NoStorageChange

\* self._stop_event.wait(5) returns, after 5 s or when the flag is set.
PodBackoff ==
    /\ pod_pc = "backoff"
    /\ pod_pc' = "loop"
    /\ UNCHANGED token_vars
    /\ UNCHANGED <<main_pc, connect_result, _v1, _stop_event, to_register,
                   watch_events_pc, svc_pc, pod_stream, svc_stream, produced,
                   delivered, closed_at>>
    /\ NoStorageChange

SvcBackoff ==
    /\ svc_pc = "backoff"
    /\ svc_pc' = "loop"
    /\ UNCHANGED token_vars
    /\ UNCHANGED <<main_pc, connect_result, _v1, _stop_event, to_register,
                   watch_events_pc, pod_pc, pod_stream, svc_stream, produced,
                   delivered, closed_at>>
    /\ NoStorageChange

\* The stream of a watch ends (timeout_seconds=300): back to the loop head.
PodStreamEnd ==
    /\ UNCHANGED token_vars
    /\ pod_pc = "stream"
    /\ pod_stream = <<>>
    /\ pod_pc' = "loop"
    /\ UNCHANGED <<main_pc, connect_result, _v1, _stop_event, to_register,
                   watch_events_pc, svc_pc, pod_stream, svc_stream, produced,
                   delivered, closed_at>>
    /\ NoStorageChange

SvcStreamEnd ==
    /\ UNCHANGED token_vars
    /\ svc_pc = "stream"
    /\ svc_stream = <<>>
    /\ svc_pc' = "loop"
    /\ UNCHANGED <<main_pc, connect_result, _v1, _stop_event, to_register,
                   watch_events_pc, pod_pc, pod_stream, svc_stream, produced,
                   delivered, closed_at>>
    /\ NoStorageChange

NextAdapter ==
    \/ WatcherConnectClear
    \/ RebuildGetPrefix
    \/ WatcherRebuildItem
    \/ StartWatch
    \/ \E runtime_type \in RuntimeTypes : \E outcome \in ConnectOutcomes :
           CreateRuntime(runtime_type, outcome)
    \/ \E pod_items \in PodListings : \E svc_items \in SvcListings :
           SyncList(pod_items, svc_items)
    \/ SyncRegister
    \/ StartWatcher
    \/ Stop
    \/ AdapterClose
    \/ WatchEventsCheck
    \/ WatchEventsClear
    \/ WatchEventsWait
    \/ \E event \in PodEvents : Produce("pod", event)
    \/ \E event \in SvcEvents : Produce("service", event)
    \/ PodLoopHead
    \/ SvcLoopHead
    \/ PodEvent
    \/ SvcEvent
    \/ PodStreamEnd
    \/ SvcStreamEnd
    \/ PodBackoff
    \/ SvcBackoff

\* The watcher daemon with the Kubernetes cluster it watches.
SpecAdapter == Init /\ [][NextAdapter]_vars

\* C18: when the adapter's connect() has failed the watcher goes no further
\* than the return of create_runtime: it lists nothing, writes no key to
\* the KV store and starts no watch_events.
C18_FailedConnectIsFatal ==
    connect_result = "False" =>
        /\ main_pc \in {"created", "exited"}
        /\ to_register = <<>>
        /\ revision = 0
        /\ watch_events_pc = "unstarted"

\* C19: when close() has returned while watch_events was started and had
\* not returned, the stop flag stays set until watch_events returns; and a
\* watch thread that reads an event with the flag set calls no callback.
C19_AdapterCancellation ==
    /\ []((closed_at \in {"started", "checked", "waiting"} /\ watch_events_pc # "returned")
            => _stop_event)
    /\ [][((PodEvent \/ SvcEvent) /\ _stop_event) => delivered' = delivered]_vars

\* C20: the callback is called, and so the KV store written, in the order
\* in which the runtime produced the events, across the watch threads.
C20_EventOrderPreserved ==
    \A i \in DOMAIN delivered : \A j \in DOMAIN delivered :
        i < j => delivered[i].seq < delivered[j].seq

\* =============================================== the Kubernetes watches

\* event['type'] of a watch event and pod.status.phase.
WatchTypes == {"ADDED", "MODIFIED", "DELETED"}
Phases == {"Pending", "Running", "Succeeded", "Failed"}

\* Every pod event and every service event.
AllPodEvents == {[type |-> t, object |-> Pod(phase)] : t \in WatchTypes, phase \in Phases}
AllSvcEvents == {[type |-> t, object |-> Svc] : t \in WatchTypes}

\* The number of events the API server produces while the watches are
\* followed through their failures.
MaxKubeEvents == 2

\* An event of the API server, within that number.
KubeProduce(kind, event) ==
    /\ produced < MaxKubeEvents
    /\ Produce(kind, event)

NextKube ==
    \/ WatcherConnectClear
    \/ RebuildGetPrefix
    \/ WatcherRebuildItem
    \/ StartWatch
    \/ CreateRuntime("kubernetes", "ok")
    \/ \E pod_items \in PodListings : SyncList(pod_items, <<>>)
    \/ SyncRegister
    \/ StartWatcher
    \/ WatchEventsCheck
    \/ WatchEventsClear
    \/ \E event \in AllPodEvents : KubeProduce("pod", event)
    \/ \E event \in AllSvcEvents : KubeProduce("service", event)
    \/ PodLoopHead
    \/ SvcLoopHead
    \/ PodEvent
    \/ SvcEvent
    \/ PodStreamEnd
    \/ SvcStreamEnd
    \/ PodWatchGone
    \/ SvcWatchGone
    \/ PodWatchError
    \/ SvcWatchError
    \/ PodBackoff
    \/ SvcBackoff
    \/ Stop
    \/ WatchEventsWait

\* The connected Kubernetes adapter: its two watches, their events and
\* their failures.
SpecKube == Init /\ [][NextKube]_vars

\* C21: a 410 Gone of a watch clears that watch's token and the loop goes
\* round at once, so that the stream the loop head opens next is opened with
\* no token; every stream is opened with the token its watch holds; another
\* error keeps the token, and the thread waits before it is back at the
\* loop head (with the stop flag set it does not wait, and the loop ends).
C21_GoneClearsToken ==
    /\ [][PodWatchGone => (_resource_version' = NoToken /\ pod_pc' = "loop")]_vars
    /\ [][SvcWatchGone => (resource_version' = NoToken /\ svc_pc' = "loop")]_vars
    /\ [][(pod_pc # "stream" /\ pod_pc' = "stream") =>
              (pod_pc = "loop" /\ ~_stop_event /\ pod_opened' = _resource_version)]_vars
    /\ [][(svc_pc # "stream" /\ svc_pc' = "stream") =>
              (svc_pc = "loop" /\ ~_stop_event /\ svc_opened' = resource_version)]_vars
    /\ [][PodWatchError =>
              (/\ _resource_version' = _resource_version
               /\ pod_pc' = IF _stop_event THEN "loop" ELSE "backoff")]_vars
    /\ [][SvcWatchError =>
              (/\ resource_version' = resource_version
               /\ svc_pc' = IF _stop_event THEN "loop" ELSE "backoff")]_vars
    /\ [][(pod_pc = "backoff" /\ pod_pc' # "backoff") => (PodBackoff /\ pod_pc' = "loop")]_vars
    /\ [][(svc_pc = "backoff" /\ svc_pc' # "backoff") => (SvcBackoff /\ svc_pc' = "loop")]_vars

\* The pod watch, once opened with a token, has had its token cleared by a
\* 410, while the service watch holds a token and waits after another error.
C21_Witness ==
    /\ pod_pc = "loop"
    /\ pod_opened # NoToken
    /\ _resource_version = NoToken
    /\ svc_pc = "backoff"
    /\ resource_version # NoToken

\* C22: each watch has its own token. An event a watch handles sets that
\* watch's token to the event's resource version and leaves the other
\* watch's token alone; the end of a stream by timeout changes no token;
\* and the stream opened next is opened with the token of its own watch.
C22_TokenPerKind ==
    /\ [][(PodEvent /\ ~_stop_event) =>
              (/\ _resource_version' = Head(pod_stream).seq
               /\ resource_version' = resource_version)]_vars
    /\ [][(SvcEvent /\ ~_stop_event) =>
              (/\ resource_version' = Head(svc_stream).seq
               /\ _resource_version' = _resource_version)]_vars
    /\ [][(PodStreamEnd \/ SvcStreamEnd) =>
              UNCHANGED <<_resource_version, resource_version>>]_vars
    /\ [][(PodLoopHead /\ pod_pc' = "stream") => pod_opened' = _resource_version']_vars
    /\ [][(SvcLoopHead /\ svc_pc' = "stream") => svc_opened' = resource_version']_vars

\* Both watches have received an event, and the pod watch has reopened its
\* stream with the resource version of its event, not with the other's.
C22_Witness ==
    /\ pod_pc = "stream"
    /\ pod_stream = <<>>
    /\ _resource_version # NoToken
    /\ pod_opened = _resource_version
    /\ resource_version # NoToken
    /\ resource_version # _resource_version

\* The ids of the listed pods that are not running.
NotRunningIds == {Id3, Id4}

\* C23: a pod event the watch handles calls the callback with ADDED for
\* ADDED/Running, MODIFIED for MODIFIED/Running, DELETED for MODIFIED into
\* Succeeded or Failed and for DELETED in any phase, and does not call it
\* for any other type and phase; the initial list holds no pod that is not
\* Running.
C23_PodEventMapping ==
    /\ [][(PodEvent /\ ~_stop_event) =>
              LET item == Head(pod_stream)
                  type == item.event.type
                  phase == item.event.object.phase
                  emitted ==
                      CASE type = "ADDED" /\ phase = "Running" -> ADDED
                        [] type = "MODIFIED" /\ phase = "Running" -> MODIFIED
                        [] type = "MODIFIED" /\ phase = "Succeeded" -> DELETED
                        [] type = "MODIFIED" /\ phase = "Failed" -> DELETED
                        [] type = "DELETED" -> DELETED
                        [] OTHER -> "none"
              IN  IF emitted = "none"
                  THEN delivered' = delivered
                  ELSE delivered' = Append(delivered, Call(item.seq, emitted, item.event.object.uid))]_vars
    /\ [][(main_pc = "created" /\ main_pc' = "sync") =>
              \A i \in DOMAIN to_register' : to_register'[i].id \notin NotRunningIds]_vars

\* The callback has been called with MODIFIED and with DELETED for the pod.
C23_Witness ==
    \E i \in DOMAIN delivered : \E j \in DOMAIN delivered :
        /\ delivered[i].event_type = MODIFIED
        /\ delivered[j].event_type = DELETED
        /\ delivered[i].id = Id1
        /\ delivered[j].id = Id1

\* ======================================================= the Docker adapter

\* s[:n]
Take(s, n) == SubSeq(s, 1, IF Len(s) < n THEN Len(s) ELSE n)

\* What a call that raised gives instead of a value.
Raised == [raised |-> "TypeError"]

\* The defaults of the fields of the watcher's Workload dataclass; id, name,
\* hostname, runtime and workload_type have none.
FieldDefault(name) ==
    IF name \in {"node", "namespace", "metadata", "registrar"} THEN None ELSE <<>>

\* Workload(**kwargs) of the watcher's dataclass: a keyword that is not a
\* field raises TypeError.
WorkloadNew(kwargs) ==
    IF DOMAIN kwargs \subseteq WorkloadFields
    THEN [k \in WorkloadFields |-> IF k \in DOMAIN kwargs THEN kwargs[k] ELSE FieldDefault(k)]
    ELSE Raised

\* Container ids (longer than the 12 characters of a short id) of three
\* containers; the third does not carry the discover label.
DockerId1 == <<"c", "1", "a", "a", "a", "a", "a", "a", "a", "a", "a", "a", "e", "e">>
DockerId2 == <<"c", "2", "a", "a", "a", "a", "a", "a", "a", "a", "a", "a", "e", "e">>
DockerId3 == <<"c", "3", "a", "a", "a", "a", "a", "a", "a", "a", "a", "a", "e", "e">>

\* A container of the Docker daemon: id, name, whether its labels carry
\* label_key = label_value, and the networks of NetworkSettings.Networks.
DockerContainer(id, name, discover, networks) ==
    [id |-> id, name |-> name, discover |-> discover, networks |-> networks]

DockerContainers ==
    {DockerContainer(DockerId1, <<"a">>, TRUE, <<Net1>>),
     DockerContainer(DockerId2, <<"b">>, TRUE, <<Net1, Net2>>),
     DockerContainer(DockerId3, <<"x">>, FALSE, <<Net1>>)}
\* Mutant of DockerKwargs: the keywords without ports, which Workload takes.
DockerKwargsPortless(container) ==
    [id |-> container.id, name |-> container.name, hostname |-> Take(container.id, 12),
     runtime |-> DOCKER, workload_type |-> CONTAINER, node |-> None, namespace |-> None,
     addresses |-> [i \in DOMAIN container.networks |->
                       NetAddr(container.name, container.networks[i])],
     isolation_groups |-> container.networks, labels |-> <<>>]

\* The keyword arguments _container_to_workload builds.
DockerKwargs(container) ==
    [id |-> container.id, name |-> container.name, hostname |-> Take(container.id, 12),
     runtime |-> DOCKER, workload_type |-> CONTAINER, node |-> None, namespace |-> None,
     addresses |-> [i \in DOMAIN container.networks |->
                       NetAddr(container.name, container.networks[i])],
     isolation_groups |-> container.networks, ports |-> <<>>, labels |-> <<>>]

\* Mutant of DockerKwargs: no ports keyword.
DockerKwargsNoPorts(container) ==
    [k \in DOMAIN DockerKwargs(container) \ {"ports"} |-> DockerKwargs(container)[k]]

\* DockerAdapter._container_to_workload(container): None for a container
\* without the label, and None when anything in the try block raises.
docker_container_to_workload(container) ==
    IF ~container.discover THEN NoWorkload
    ELSE IF WorkloadNew(DockerKwargs(container)) = Raised THEN NoWorkload
    ELSE WorkloadNew(DockerKwargs(container))

\* _get_container_workload(container_id): None when the daemon has no such
\* container (docker.errors.NotFound).
_get_container_workload(daemon, container_id) ==
    IF \E c \in daemon : c.id = container_id
    THEN docker_container_to_workload(CHOOSE c \in daemon : c.id = container_id)
    ELSE NoWorkload

\* The workload of a stop, die or kill event: id, the name attribute of the
\* event's actor or else the short id, and the short id as hostname.
DockerMinimal(event) ==
    WorkloadNew([id |-> event.id,
                 name |-> IF event.name = None THEN Take(event.id, 12) ELSE event.name,
                 hostname |-> Take(event.id, 12),
                 runtime |-> DOCKER, workload_type |-> CONTAINER])

\* The call of the callback one iteration of the loop of watch_events makes
\* for an event, NoOutput for none.
Emit(event_type, workload) ==
    [op |-> "callback", event_type |-> event_type, workload |-> workload]

DockerLoopBody(daemon, event) ==
    LET fetched == _get_container_workload(daemon, event.id)
    IN  CASE event.id = <<>> -> NoOutput
          [] event.Action = "start" ->
               IF fetched = NoWorkload THEN NoOutput ELSE Emit(ADDED, fetched)
          [] event.Action \in {"stop", "die", "kill"} -> Emit(DELETED, DockerMinimal(event))
          [] event.Action \in {"connect", "disconnect"} ->
               IF fetched = NoWorkload THEN NoOutput ELSE Emit(NETWORK_CHANGED, fetched)
          [] OTHER -> NoOutput

\* list_workloads(): the containers the daemon lists under the label
\* filter, converted; a None is left out.
docker_list_workloads(daemon) ==
    {docker_container_to_workload(c) : c \in {d \in daemon : d.discover}} \ {NoWorkload}

\* The events of the daemon: an action on a container, with or without the
\* name attribute of its actor, or an event without an id.
DockerActions == {"start", "stop", "die", "kill", "connect", "disconnect", "create"}
DockerEvents ==
    {[Action |-> a, id |-> c.id, name |-> n] :
        a \in DockerActions, c \in DockerContainers, n \in {None, <<"a">>}}
    \cup {[Action |-> "start", id |-> <<>>, name |-> None]}

\* The daemon's containers at the time of a call.
Daemons == {{}, DockerContainers}

DockerInputs ==
    {[op |-> "event", daemon |-> d, event |-> e] : d \in Daemons, e \in DockerEvents}
    \cup {[op |-> "list", daemon |-> d] : d \in Daemons}

\* A Docker adapter, its daemon, and one event or one list call to come.
InitDocker ==
    /\ InitProgram
    /\ input \in DockerInputs
    /\ output = NoOutput

\* One iteration of "for event in self._client.events(...)".
DockerWatchEvent ==
    /\ input # NoInput
    /\ input.op = "event"
    /\ output = NoOutput
    /\ output' = [op |-> "handled", call |-> DockerLoopBody(input.daemon, input.event)]
    /\ UNCHANGED <<index_vars, response, store_vars, watcher_vars, query_vars, adapter_vars, lock_vars, runtime_vars, input>>

\* list_workloads()
DockerList ==
    /\ input # NoInput
    /\ input.op = "list"
    /\ output = NoOutput
    /\ output' = [op |-> "listed", workloads |-> docker_list_workloads(input.daemon)]
    /\ UNCHANGED <<index_vars, response, store_vars, watcher_vars, query_vars, adapter_vars, lock_vars, runtime_vars, input>>

NextDocker ==
    \/ DockerWatchEvent
    \/ DockerList

SpecDocker == InitDocker /\ [][NextDocker]_vars

\* The container of an id in a daemon, if the daemon has one with the label.
Matched(daemon, id) == {c \in daemon : c.id = id /\ c.discover}

\* C24: for a container that carries the label, start calls the callback
\* with ADDED and connect/disconnect with NETWORK_CHANGED, both with the
\* workload fetched again (addresses name.network, isolation_groups the
\* networks); stop, die and kill call it with DELETED, the id and the short
\* id as hostname; any other action calls nothing; and list_workloads
\* returns one workload for each container with the label.
C24_DockerEventMapping ==
    /\ output # NoOutput /\ output.op = "handled" =>
        LET event == input.event
            made == output.call
        IN  \A c \in Matched(input.daemon, event.id) :
              CASE event.Action \in {"start", "connect", "disconnect"} ->
                     /\ made # NoOutput
                     /\ made.event_type =
                            IF event.Action = "start" THEN ADDED ELSE NETWORK_CHANGED
                     /\ made.workload.id = c.id
                     /\ made.workload.hostname = Take(c.id, 12)
                     /\ made.workload.isolation_groups = c.networks
                     /\ made.workload.addresses =
                            [i \in DOMAIN c.networks |-> NetAddr(c.name, c.networks[i])]
                [] event.Action \in {"stop", "die", "kill"} ->
                     /\ made # NoOutput
                     /\ made.event_type = DELETED
                     /\ made.workload.id = c.id
                     /\ made.workload.hostname = Take(c.id, 12)
                [] OTHER -> made = NoOutput
    /\ output # NoOutput /\ output.op = "listed" =>
        /\ {w.id : w \in output.workloads} = {c.id : c \in {d \in input.daemon : d.discover}}
        /\ \A w \in output.workloads : \A c \in input.daemon :
              c.id = w.id =>
                  /\ w.isolation_groups = c.networks
                  /\ w.addresses = [i \in DOMAIN c.networks |-> NetAddr(c.name, c.networks[i])]

\* ================================================== the CNI state reader

\* s.find(sub): the index (from 0) of the first occurrence, -1 for none.
Find(s, sub) ==
    LET hits == {i \in 1..(Len(s) - Len(sub) + 1) : SubSeq(s, i, i + Len(sub) - 1) = sub}
    IN  IF hits = {} THEN -1 ELSE (CHOOSE i \in hits : \A j \in hits : i <= j) - 1

\* s.rstrip(c)
RECURSIVE RStrip(_, _)
RStrip(s, c) ==
    IF s # <<>> /\ s[Len(s)] = c THEN RStrip(SubSeq(s, 1, Len(s) - 1), c) ELSE s

\* s.endswith(suffix)
EndsWith(s, suffix) ==
    Len(suffix) <= Len(s) /\ SubSeq(s, Len(s) - Len(suffix) + 1, Len(s)) = suffix

\* Mutant of StripNamespace: the namespace suffix stays.
StripNothing(network_name, namespace) == network_name

\* "if network_name.endswith(namespace_suffix): network_name =
\* network_name[:-len(namespace_suffix)]", namespace_suffix = "-" + namespace.
StripNamespace(network_name, namespace) ==
    IF EndsWith(network_name, <<"-">> \o namespace)
    THEN SubSeq(network_name, 1, Len(network_name) - Len(namespace) - 1)
    ELSE network_name

\* The network name _get_cni_networks reads from a file name, "" for none.
NetworkOfFile(filename, container_id, namespace) ==
    LET id_pos == Find(filename, Take(container_id, 12))
    IN  IF id_pos > 0
        THEN StripNamespace(RStrip(SubSeq(filename, 1, id_pos), "-"), namespace)
        ELSE <<>>

\* A result file the CNI plugin wrote for an interface of a container on a
\* network: its name {network}-{namespace}-{container_id}-{interface} and
\* the addresses of its "ips".
CniFile(network, namespace, container_id, interface, addresses) ==
    [name |-> network \o <<"-">> \o namespace \o <<"-">> \o container_id
                  \o <<"-">> \o interface,
     ips |-> addresses, network |-> network, container_id |-> container_id]

\* _get_cni_networks(container_id): the network names and the addresses
\* (without /mask) of the files whose name holds the short id, each as
\* list(set(...)), a list in any order.
_get_cni_networks(dir, container_id, namespace) ==
    LET files == {f \in dir : Find(f.name, Take(container_id, 12)) >= 0}
        networks == {NetworkOfFile(f.name, container_id, namespace) : f \in files} \ {<<>>}
        ips == UNION {{Split(f.ips[i], "/")[1] : i \in DOMAIN f.ips} : f \in files} \ {<<>>}
    IN  {[networks |-> n, ips |-> a] : n \in Orders(networks), a \in Orders(ips)}

\* Network names: plain, with "-" inside, ending with "-" + a namespace,
\* with "_" and "-", ending with "-"; namespaces, plain and with "-"
\* inside (containerd accepts none that ends with "-"); interfaces.
CniNetworks ==
    {<<"a">>, <<"a", "-", "b">>, <<"a", "-", "d">>, <<"d", "_", "t", "-", "a">>,
     <<"b", "-">>}
CniNamespaces == {<<"d">>, <<"k", "-", "i">>}
CniInterfaces == {<<"e", "0">>, <<"e", "1">>}
CniAddresses == {<<<<"7", "/", "8">>>>, <<<<"7", "/", "8">>, <<"9", "/", "8">>>>}

\* The result files of a namespace: every network, interface and container,
\* with one list of addresses each.
CniFiles(namespace) ==
    {CniFile(n, namespace, c, i, a) :
        n \in CniNetworks, c \in {DockerId1, DockerId2}, i \in CniInterfaces,
        a \in CniAddresses}

\* A state directory holds at most two files.
CniInputs ==
    {[op |-> "cni", dir |-> {f, g}, container_id |-> DockerId1, namespace |-> ns] :
        ns \in CniNamespaces, f \in CniFiles(<<"d">>) \cup CniFiles(<<"k", "-", "i">>),
        g \in CniFiles(<<"d">>) \cup CniFiles(<<"k", "-", "i">>)}

InitCni ==
    /\ InitProgram
    /\ input \in {x \in CniInputs : \A f \in x.dir : f \in CniFiles(x.namespace)}
    /\ output = NoOutput

\* _get_cni_networks(container_id)
GetCniNetworks ==
    /\ input # NoInput
    /\ input.op = "cni"
    /\ output = NoOutput
    /\ \E result \in _get_cni_networks(input.dir, input.container_id, input.namespace) :
           output' = [op |-> "cni", networks |-> result.networks, ips |-> result.ips]
    /\ UNCHANGED <<index_vars, response, store_vars, watcher_vars, query_vars, adapter_vars, lock_vars, runtime_vars, input>>

NextCni == GetCniNetworks

SpecCni == InitCni /\ [][NextCni]_vars

\* C25: the networks returned are the networks the files of the container
\* were written for, whatever "-" the names hold, and neither list holds an
\* element twice.
C25_CniFileNames ==
    (output # NoOutput /\ output.op = "cni") =>
        /\ SetOf(output.networks) =
               {f.network : f \in {g \in input.dir : g.container_id = input.container_id}}
        /\ Len(output.networks) = Cardinality(SetOf(output.networks))
        /\ Len(output.ips) = Cardinality(SetOf(output.ips))

\* Two files of one network whose name ends with "-" and the namespace.
C25_Witness ==
    /\ output # NoOutput
    /\ output.op = "cni"
    /\ output.networks = <<<<"a", "-", "d">>>>
    /\ input.namespace = <<"d">>
    /\ Cardinality(input.dir) = 2
    /\ \A f \in input.dir : f.container_id = input.container_id

\* ====================================================== the workload codec

\* Well-formed workloads: node, namespace, metadata and registrar are None
\* or set (metadata also the empty dict); addresses, isolation_groups,
\* labels and annotations are empty or not. A dict is the list of its keys
\* and values in turn.
CodecWorkloads ==
    {[id |-> Id1, name |-> <<"a">>, hostname |-> <<"h">>, runtime |-> rt.runtime,
      workload_type |-> rt.workload_type, node |-> node, namespace |-> namespace,
      addresses |-> addresses, isolation_groups |-> isolation_groups,
      labels |-> labels, annotations |-> annotations, metadata |-> metadata,
      registrar |-> registrar] :
        rt \in {[runtime |-> DOCKER, workload_type |-> CONTAINER],
                [runtime |-> KUBERNETES, workload_type |-> POD]},
        node \in {None, <<"n">>}, namespace \in {None, Ns},
        addresses \in {<<>>, <<NetAddr(<<"a">>, Net1)>>},
        isolation_groups \in {<<>>, <<Net1>>, <<Net1, Net2>>},
        labels \in {<<>>, <<"k", "v">>},
        annotations \in {<<>>, <<"k", "">>},
        metadata \in {None, <<>>, <<"m", "v">>},
        registrar \in {None, <<"r">>}}

InitCodec ==
    /\ InitProgram
    /\ input \in {[op |-> "codec", workload |-> w] : w \in CodecWorkloads}
    /\ output = NoOutput

\* workload.to_json()
Encode ==
    /\ input # NoInput
    /\ input.op = "codec"
    /\ output = NoOutput
    /\ output' = [op |-> "encoded", value |-> to_json(input.workload)]
    /\ UNCHANGED <<index_vars, response, store_vars, watcher_vars, query_vars, adapter_vars, lock_vars, runtime_vars, input>>

\* Workload.from_json(json_str)
Decode ==
    /\ output # NoOutput
    /\ output.op = "encoded"
    /\ output' = [op |-> "decoded", workload |-> from_json(output.value)]
    /\ UNCHANGED <<index_vars, response, store_vars, watcher_vars, query_vars, adapter_vars, lock_vars, runtime_vars, input>>

NextCodec == Encode \/ Decode

SpecCodec == InitCodec /\ [][NextCodec]_vars

\* C26: Workload.from_json(W.to_json()) has the value of W in every field.
C26_CodecRoundTrip ==
    (output # NoOutput /\ output.op = "decoded") =>
        /\ DOMAIN output.workload = WorkloadFields
        /\ \A f \in WorkloadFields : output.workload[f] = input.workload[f]

\* A workload with every optional field None and every collection empty
\* has come back from its JSON text, which holds none of the None fields.
C26_Witness ==
    /\ output # NoOutput
    /\ output.op = "decoded"
    /\ \A f \in {"node", "namespace", "metadata", "registrar"} : input.workload[f] = None
    /\ \A f \in {"addresses", "isolation_groups", "labels", "annotations"} :
           input.workload[f] = <<>>
    /\ DOMAIN to_dict(input.workload) \cap {"node", "namespace", "metadata", "registrar"} = {}

\* ============================== addresses and groups of container workloads

CONTAINERD == <<"c", "o", "n", "t", "a", "i", "n", "e", "r", "d">>

\* A network whose name holds a ".".
DottedNet == <<"n", ".", "2">>
\* Mutant of ContainerdKwargs: the keywords without ports, which Workload
\* takes.
ContainerdKwargsPortless(container) ==
    [id |-> container.id, name |-> container.name, hostname |-> Take(container.id, 12),
     runtime |-> CONTAINERD, workload_type |-> CONTAINER, node |-> None,
     namespace |-> None,
     addresses |-> [i \in DOMAIN container.networks |->
                       NetAddr(container.name, container.networks[i])],
     isolation_groups |-> container.networks, labels |-> <<>>]

\* The keyword arguments ContainerdAdapter._container_to_workload builds
\* for a container whose CNI networks are networks: the name is the label
\* nerdctl/name or else the short id.
ContainerdKwargs(container) ==
    LET name == IF container.name = None THEN Take(container.id, 12) ELSE container.name
    IN  [id |-> container.id, name |-> name, hostname |-> Take(container.id, 12),
         runtime |-> CONTAINERD, workload_type |-> CONTAINER, node |-> None,
         namespace |-> None,
         addresses |-> [i \in DOMAIN container.networks |->
                           NetAddr(name, container.networks[i])],
         isolation_groups |-> container.networks, ports |-> <<>>, labels |-> <<>>]

\* ContainerdAdapter._container_to_workload(container, labels): None when
\* anything in the try block raises.
containerd_container_to_workload(container) ==
    IF WorkloadNew(ContainerdKwargs(container)) = Raised THEN NoWorkload
    ELSE WorkloadNew(ContainerdKwargs(container))

\* Containers that carry the label, with a plain name, a name that holds a
\* "." or (containerd) no name label, on up to two networks.
ConvertNetworks ==
    UNION {Orders(S) : S \in {T \in SUBSET {Net1, Net2, DottedNet} : Cardinality(T) <= 2}}
ConvertContainers ==
    {DockerContainer(id, name, TRUE, networks) :
        id \in {DockerId1, DockerId2}, name \in {<<"a">>, <<"a", ".", "b">>, None},
        networks \in ConvertNetworks}

ConvertInputs ==
    {[op |-> "docker", container |-> c] : c \in {d \in ConvertContainers : d.name # None}}
    \cup {[op |-> "containerd", container |-> c] : c \in ConvertContainers}

InitConvert ==
    /\ InitProgram
    /\ input \in ConvertInputs
    /\ output = NoOutput

\* DockerAdapter._container_to_workload(container): built is the workload
\* it hands to Workload(...), workload what it returns.
DockerConvert ==
    /\ input # NoInput
    /\ input.op = "docker"
    /\ output = NoOutput
    /\ output' = [op |-> "converted", built |-> DockerKwargs(input.container),
                  workload |-> docker_container_to_workload(input.container)]
    /\ UNCHANGED <<index_vars, response, store_vars, watcher_vars, query_vars, adapter_vars, lock_vars, runtime_vars, input>>

\* ContainerdAdapter._container_to_workload(container, labels)
ContainerdConvert ==
    /\ input # NoInput
    /\ input.op = "containerd"
    /\ output = NoOutput
    /\ output' = [op |-> "converted", built |-> ContainerdKwargs(input.container),
                  workload |-> containerd_container_to_workload(input.container)]
    /\ UNCHANGED <<index_vars, response, store_vars, watcher_vars, query_vars, adapter_vars, lock_vars, runtime_vars, input>>

NextConvert == DockerConvert \/ ContainerdConvert

SpecConvert == InitConvert /\ [][NextConvert]_vars

\* Every address name.group of a workload, split at its last ".", names a
\* group of the workload's isolation_groups.
GroupsOfAddresses(w) ==
    \A i \in DOMAIN w.addresses :
        Len(RSplit(w.addresses[i])) = 2 =>
            RSplit(w.addresses[i])[2] \in SetOf(w.isolation_groups)

C27_NothingConverted ==
    (output # NoOutput /\ output.op = "converted") => output.workload = NoWorkload

\* ============================ register and deregister, one call after another

\* The workloads the watcher registers: one id with one or two groups, a
\* second id with the name and hostname of the first, and a pod.
RegisterWorkloads ==
    {Container(Id1, <<"a">>, Id1, <<Net1>>),
     Container(Id1, <<"a">>, Id1, <<Net1, Net2>>),
     Container(Id2, <<"a">>, Id1, <<Net1>>),
     Namespaced(Id2, <<"b">>, POD, <<IpPort>>)}

\* The ids the watcher deregisters; nothing is ever stored under Id3.
DeregisterIds == {Id1, Id2, Id3}

\* The call before this one was the same call.
Repeats(op, arg) == output # NoOutput /\ output.op = op /\ output.arg = arg

\* Mutant of RegisterIndex: the new entries are added, the old ones stay.
RegisterIndexKeepsOld(ix, workload) ==
    [workloads |-> Append(ix.workloads, [key |-> workload.id, value |-> workload]),
     by_hostname |-> ix.by_hostname, by_name |-> ix.by_name,
     by_group |-> AddToGroups(ix.by_group, workload.isolation_groups, workload.id)]

\* self._update_index(workload.id, workload) of register.
RegisterIndex(ix, workload) == _update_index(ix, workload.id, workload)

\* register(workload): client.put of the data key, then the index; True.
Register(workload) ==
    /\ KvPut(DataKey(workload.id), to_json(workload))
    /\ SetIndex(RegisterIndex(Index, workload))
    /\ _metadata' = MetadataAfterRemove(_workloads, _metadata, workload.id)
    /\ applied' = FPut(applied, workload.id, revision')
    /\ output' = [op |-> "register", arg |-> workload, result |-> TRUE,
                  again |-> Repeats("register", workload)]
    /\ UNCHANGED <<response, cursor, watch_pc, _stop_watch, rebuild_pc, results, pending,
                   query_vars, adapter_vars, lock_vars, runtime_vars, input>>

\* deregister(workload_id): client.delete_prefix, then the index; True.
Deregister(workload_id) ==
    /\ KvDeletePrefix(WorkloadPrefix(workload_id))
    /\ SetIndex(_remove_from_index(Index, workload_id))
    /\ _metadata' = MetadataAfterRemove(_workloads, _metadata, workload_id)
    /\ applied' = FPut(applied, workload_id, revision')
    /\ output' = [op |-> "deregister", arg |-> workload_id, result |-> TRUE,
                  again |-> Repeats("deregister", workload_id)]
    /\ UNCHANGED <<response, cursor, watch_pc, _stop_watch, rebuild_pc, results, pending,
                   query_vars, adapter_vars, lock_vars, runtime_vars, input>>

\* set_metadata(workload_id, metadata): client.put of the metadata key,
\* then the metadata table; True.
SetMetadataCall(workload_id) ==
    /\ KvPut(MetadataKey(workload_id), MetadataValue)
    /\ _metadata' = FPut(_metadata, workload_id, MetadataValue.json)
    /\ output' = [op |-> "set_metadata", arg |-> workload_id, result |-> TRUE,
                  again |-> Repeats("set_metadata", workload_id)]
    /\ UNCHANGED <<index_vars, response, cursor, watch_pc, _stop_watch, rebuild_pc, results,
                   pending, applied, query_vars, adapter_vars, lock_vars, runtime_vars, input>>

\* Another watcher writes or deletes the keys of a workload.
OtherWatcher(workload_id) ==
    /\ \/ \E workload \in {w \in RegisterWorkloads : w.id = workload_id} :
              KvPut(DataKey(workload_id), to_json(workload))
       \/ /\ KeysUnder(WorkloadPrefix(workload_id)) # <<>>
          /\ KvDeletePrefix(WorkloadPrefix(workload_id))
    /\ output' = [op |-> "other", arg |-> workload_id, result |-> TRUE, again |-> FALSE]
    /\ UNCHANGED <<index_vars, response, cursor, watch_pc, _stop_watch, rebuild_pc, results,
                   watcher_vars, query_vars, adapter_vars, lock_vars, runtime_vars, input>>

NextRegister ==
    \/ \E workload \in RegisterWorkloads : Register(workload)
    \/ \E workload_id \in DeregisterIds : Deregister(workload_id)
    \/ SetMetadataCall(Id1)
    \/ \E workload_id \in StoreIds : OtherWatcher(workload_id)

SpecRegister == Init /\ [][NextRegister]_vars

\* The KV store's content and the four tables of the index stay as they are.
SameStorage == kv' = kv /\ Index' = Index

\* Nothing is stored or indexed under the id.
Absent(workload_id) ==
    /\ KeysUnder(WorkloadPrefix(workload_id)) = <<>>
    /\ workload_id \notin Keys(_workloads)

C28_WitnessDeregister ==
    /\ output # NoOutput
    /\ output.op = "deregister"
    /\ output.again
    /\ output.arg = Id3
    /\ Keys(_workloads) # {}

\* ======================================================== the trust ranker

\* An agent: a dict with id, name, url, capabilities, contact, updated_at
\* (here the age of the date in days at the time of the call, -1 for a
\* missing or invalid date), the two verification flags,
\* handshake_fail_ratio (in hundredths), rate_limit_violations and
\* complaint_flags.
Profile(url, capabilities, contact, updated_at, verified, key, fail, violations, complaints) ==
    [url |-> url, capabilities |-> capabilities, contact |-> contact,
     updated_at |-> updated_at, domain_verified |-> verified, key_present |-> key,
     handshake_fail_ratio |-> fail, rate_limit_violations |-> violations,
     complaint_flags |-> complaints]

\* The agents of the tests: complete, verified, fresh and clean; missing
\* fields, stale, unverified and misbehaving; and the agent of the tie.
GoodProfile == Profile(<<"u">>, <<"k">>, <<"o">>, 7, TRUE, TRUE, 0, 0, 0)
BadProfile == Profile(<<>>, <<>>, None, 700, FALSE, FALSE, 60, 40, 10)
TieProfile == Profile(<<"u">>, <<"i">>, <<"o">>, 7, TRUE, TRUE, 1, 0, 0)

AgentOf(id, name, profile) ==
    [k \in DOMAIN profile \cup {"id", "name"} |->
        IF k = "id" THEN id ELSE IF k = "name" THEN name ELSE profile[k]]

Min(a, b) == IF a <= b THEN a ELSE b

\* _completeness(agent): how many of the six fields are present, and the
\* first reason.
Present(agent) ==
    Cardinality({k \in {"id", "name", "url", "capabilities", "contact"} :
                    agent[k] # None /\ agent[k] # <<>>})
    + (IF agent.updated_at # -1 THEN 1 ELSE 0)

CompletenessReason(agent) ==
    IF 10 * Present(agent) >= 54 THEN "Profile is complete"
    ELSE IF 10 * Present(agent) >= 36 THEN "Profile is somewhat complete"
    ELSE "Profile is missing key fields"

\* _freshness(agent): the score in tenths, and the reason.
Freshness(agent) ==
    IF agent.updated_at = -1 THEN 2
    ELSE IF agent.updated_at <= 30 THEN 10
    ELSE IF agent.updated_at <= 120 THEN 7
    ELSE IF agent.updated_at <= 365 THEN 4
    ELSE 1

FreshnessReason(agent) ==
    IF agent.updated_at = -1 THEN "No valid updated_at date"
    ELSE IF agent.updated_at <= 30 THEN "Recently updated"
    ELSE IF agent.updated_at <= 120 THEN "Updated this quarter"
    ELSE IF agent.updated_at <= 365 THEN "Updated within a year"
    ELSE "Stale profile"

\* _verification(agent): the score in tenths, and the first reason.
Verification(agent) ==
    (IF agent.domain_verified THEN 6 ELSE 0) + (IF agent.key_present THEN 4 ELSE 0)

VerificationReason(agent) ==
    IF agent.domain_verified THEN "Domain verified" ELSE "Domain not verified"

\* _behavior(agent): 6000 times the penalty, and the reasons.
Penalty(agent) ==
    60 * Min(50, agent.handshake_fail_ratio)
    + 72 * Min(25, agent.rate_limit_violations)
    + 120 * Min(10, agent.complaint_flags)

BehaviorReasons(agent) ==
    (IF agent.handshake_fail_ratio >= 30 THEN <<"High handshake failure rate">>
     ELSE IF agent.handshake_fail_ratio <= 5 THEN <<"Low handshake failure rate">>
     ELSE <<>>)
    \o (IF agent.rate_limit_violations >= 10 THEN <<"Many rate limit violations">>
        ELSE IF agent.rate_limit_violations = 0 THEN <<"No rate limit violations">>
        ELSE <<>>)
    \o (IF agent.complaint_flags >= 3 THEN <<"Multiple complaint flags">>
        ELSE IF agent.complaint_flags = 0 THEN <<"No complaint flags">>
        ELSE <<>>)

\* score_0_100 in tenths: round(100 * (0.35 comp + 0.20 fresh + 0.25 ver +
\* 0.20 beh), 1), computed on 30000 times the weighted sum.
Score(agent) ==
    LET weighted == 5 * (350 * Present(agent) + 120 * Freshness(agent)
                            + 150 * Verification(agent))
                    + 6000 - Penalty(agent)
    IN  (Min(30000, weighted) + 15) \div 30

\* _band(score_0_100)
_band(score) ==
    IF score >= 800 THEN "green" ELSE IF score >= 500 THEN "yellow" ELSE "red"

\* The three reasons _top_reasons keeps: completeness, freshness, then
\* behavior when it has a reason and else verification.
Reasons(agent) ==
    <<CompletenessReason(agent), FreshnessReason(agent),
      IF BehaviorReasons(agent) # <<>> THEN BehaviorReasons(agent)[1]
      ELSE VerificationReason(agent)>>

\* a = dict(agent); a["trust"] = {score, band, reasons}
Scored(agent) ==
    [k \in DOMAIN agent \cup {"trust"} |->
        IF k = "trust"
        THEN [score |-> Score(agent), band |-> _band(Score(agent)),
              reasons |-> Reasons(agent)]
        ELSE agent[k]]

\* scored.sort(key=lambda t: t[0], reverse=True): by score, highest first;
\* the sort is stable, entries of one score keep the order they came in.
InsertByScore(sorted, a) ==
    LET k == Cardinality({i \in DOMAIN sorted : sorted[i].trust.score >= a.trust.score})
    IN  SubSeq(sorted, 1, k) \o <<a>> \o SubSeq(sorted, k + 1, Len(sorted))

RECURSIVE SortByScore(_)
SortByScore(scored) ==
    IF scored = <<>> THEN <<>>
    ELSE InsertByScore(SortByScore(SubSeq(scored, 1, Len(scored) - 1)),
                       scored[Len(scored)])

\* rank_agents(agents)
rank_agents(agents) == SortByScore([i \in DOMAIN agents |-> Scored(agents[i])])

\* The lists of agents ranked: up to MaxAgents agents of different ids, two
\* of them of one name, each with one of the three profiles, in any order.
MaxAgents == 3
AgentIdentities ==
    {[id |-> <<"a">>, name |-> <<"a">>], [id |-> <<"b">>, name |-> <<"b">>],
     [id |-> <<"c">>, name |-> <<"a">>]}
Profiles == {GoodProfile, BadProfile, TieProfile}

RECURSIVE AgentLists(_)
AgentLists(identities) ==
    IF identities = <<>> THEN {<<>>}
    ELSE {<<AgentOf(identities[1].id, identities[1].name, p)>> \o rest :
            p \in Profiles, rest \in AgentLists(Tail(identities))}

RankInputs ==
    {[op |-> "rank", agents |-> agents] :
        agents \in UNION {AgentLists(order) :
            order \in UNION {Orders(S) :
                S \in {T \in SUBSET AgentIdentities : T # {} /\ Cardinality(T) <= MaxAgents}}}}

InitRank ==
    /\ InitProgram
    /\ input \in RankInputs
    /\ output = NoOutput

\* rank_agents(agents)
RankAgents ==
    /\ input # NoInput
    /\ input.op = "rank"
    /\ output = NoOutput
    /\ output' = [op |-> "ranked", agents |-> rank_agents(input.agents)]
    /\ UNCHANGED <<index_vars, response, store_vars, watcher_vars, query_vars, adapter_vars, lock_vars, runtime_vars, input>>

NextRank == RankAgents

SpecRank == InitRank /\ [][NextRank]_vars

\* The ranked list holds the agents of the input, each once.
RankedIsPermutation ==
    /\ Len(output.agents) = Len(input.agents)
    /\ {output.agents[i].id : i \in DOMAIN output.agents}
           = {input.agents[i].id : i \in DOMAIN input.agents}

\* a comes before b by score descending, then name, then id ascending.
RanksBefore(a, b) ==
    \/ a.trust.score > b.trust.score
    \/ /\ a.trust.score = b.trust.score
       /\ \/ StrLess(a.name, b.name)
          \/ a.name = b.name /\ StrLess(a.id, b.id)

\* C29: rank_agents returns a permutation of its input ordered by
\* trust.score descending, agents of one score by name ascending and then
\* id ascending, whatever the order of the input.
C29_RankOrder ==
    (output # NoOutput /\ output.op = "ranked") =>
        /\ RankedIsPermutation
        /\ \A i, j \in DOMAIN output.agents :
               i < j => RanksBefore(output.agents[i], output.agents[j])

\* The part that holds: a permutation of the input, scores never rising.
C29_ScoreDescending ==
    (output # NoOutput /\ output.op = "ranked") =>
        /\ RankedIsPermutation
        /\ \A i, j \in DOMAIN output.agents :
               i < j => output.agents[i].trust.score >= output.agents[j].trust.score

\* ===================================================== the update contract

\* The keys of by_name under which a workload is indexed.
NameKeys(workload) ==
    {workload.name} \cup (IF Truthy(workload.namespace)
                          THEN {NsName(workload.namespace, workload.name)} ELSE {})

\* C30: when update(id, W) returns, by_id[id] is W, by_hostname[W.hostname],
\* by_name[W.name] and, with a namespace, by_name[namespace/name] are id,
\* and id is in by_group[g] for the groups g of W and for no other; no
\* hostname or name entry that is not W's points to id any more.
C30_UpdateContract ==
    [][\A workload_id \in Ids : \A workload \in Values(workload_id) :
        Update(workload_id, workload) =>
            /\ Get(_workloads', workload_id) = workload
            /\ PointsTo(_by_hostname', workload.hostname, workload_id)
            /\ \A n \in NameKeys(workload) : PointsTo(_by_name', n, workload_id)
            /\ \A g \in SetOf(workload.isolation_groups) :
                   g \in DOMAIN _by_group' /\ workload_id \in _by_group'[g]
            /\ \A g \in DOMAIN _by_group' :
                   workload_id \in _by_group'[g] => g \in SetOf(workload.isolation_groups)
            /\ \A h \in DOMAIN _by_hostname' :
                   _by_hostname'[h] = workload_id => h = workload.hostname
            /\ \A n \in DOMAIN _by_name' :
                   _by_name'[n] = workload_id => n \in NameKeys(workload)]_vars

\* Id1 is indexed as the pod p next to Id2 on Net1, a group, hostname and
\* name that the other values of Id1 have: Id1 is in no group but its
\* namespace, and no entry for the hostname Id4 or the name b is Id1's.
C30_Witness ==
    /\ Get(_workloads, Id1) = Namespaced(Id1, <<"p">>, POD, <<IpPort>>)
    /\ Get(_workloads, Id2) = Container(Id2, <<"b">>, Id4, <<>>)
    /\ _workloads[Len(_workloads)].key = Id1
    /\ PointsTo(_by_name, NsName(Ns, <<"p">>), Id1)
    /\ PointsTo(_by_hostname, Id4, Id2)
    /\ PointsTo(_by_name, <<"b">>, Id2)
    /\ Net1 \notin DOMAIN _by_group

\* ================================== index writes, each with the index before

\* The workloads written: ids that share a hostname and a name, a workload
\* whose isolation_groups lists a group twice, a pod.
WrittenIds == {Id1, Id2, Id4}
WrittenValues(id) ==
    CASE id = Id1 ->
           {Container(Id1, <<"b">>, Id4, <<Net1, Net1>>),
            Container(Id1, <<"a">>, Id1, <<Net1>>)}
      [] id = Id2 ->
           {Container(Id2, <<"b">>, Id4, <<>>),
            Container(Id2, <<"b">>, Id2, <<Net1, Net2>>),
            Namespaced(Id2, <<"q">>, POD, <<BareIp>>)}
      [] id = Id4 ->
           {Container(Id4, <<"a">>, Id4, <<Net2, Net1>>)}

\* _update_index(workload_id, workload) of the watch loop; before is the
\* index it found.
IndexUpdate(workload_id, workload) ==
    /\ SetIndex(_update_index(Index, workload_id, workload))
    /\ response' = NoResponse
    /\ output' = [op |-> "update", arg |-> workload_id, before |-> Index]
    /\ UNCHANGED <<store_vars, watcher_vars, query_vars, adapter_vars, lock_vars, runtime_vars, input>>

\* _remove_from_index(workload_id) of the watch loop.
IndexRemove(workload_id) ==
    /\ SetIndex(_remove_from_index(Index, workload_id))
    /\ response' = NoResponse
    /\ output' = [op |-> "remove", arg |-> workload_id, before |-> Index]
    /\ UNCHANGED <<store_vars, watcher_vars, query_vars, adapter_vars, lock_vars, runtime_vars, input>>

\* list_all(runtime): the workloads of the runtime, all of them for None.
list_all(ix, runtime) ==
    LET values == [i \in DOMAIN ix.workloads |-> ix.workloads[i].value]
    IN  SelectSeq(values, LAMBDA w : ~Truthy(runtime) \/ w.runtime = runtime)

ListAll(runtime) ==
    /\ response' = [op |-> "list_all", runtime |-> runtime,
                    workloads |-> list_all(Index, runtime)]
    /\ UNCHANGED <<index_vars, store_vars, beyond_store>>

NextIndex ==
    \/ \E workload_id \in WrittenIds : \E workload \in WrittenValues(workload_id) :
           IndexUpdate(workload_id, workload)
    \/ \E workload_id \in WrittenIds \cup {Id3} : IndexRemove(workload_id)
    \/ \E caller_identity \in {Id1, Id4, <<"b">>, <<"z", "z">>} :
           FindReachable(caller_identity)
    \/ \E runtime \in {None, KUBERNETES} : ListAll(runtime)

SpecIndex == Init /\ [][NextIndex]_vars

\* The ids of a group in an index, none for a group that is no key.
Members(ix, group) == IF group \in DOMAIN ix.by_group THEN ix.by_group[group] ELSE {}

\* A remove has just been applied to the index output.before.
Removed == output # NoOutput /\ output.op = "remove"

\* C31: a remove of an id that is not indexed changes nothing; a remove of
\* an indexed id deletes no hostname or name entry that points to another
\* id, and leaves every other workload's entry of the id table and its
\* membership of every group as they were.
C31_RemoveFrame ==
    Removed =>
        /\ output.arg \notin Keys(output.before.workloads) => Index = output.before
        /\ \A h \in DOMAIN output.before.by_hostname :
               output.before.by_hostname[h] # output.arg =>
                   PointsTo(_by_hostname, h, output.before.by_hostname[h])
        /\ \A n \in DOMAIN output.before.by_name :
               output.before.by_name[n] # output.arg =>
                   PointsTo(_by_name, n, output.before.by_name[n])
        /\ \A other \in Keys(output.before.workloads) \ {output.arg} :
               /\ Get(_workloads, other) = Get(output.before.workloads, other)
               /\ \A g \in DOMAIN output.before.by_group \cup DOMAIN _by_group :
                      other \in Members(Index, g) <=> other \in Members(output.before, g)
        /\ Keys(_workloads) = Keys(output.before.workloads) \ {output.arg}

\* Id1 with hostname Id4 and name b was removed when a later writer, Id2,
\* owned both entries: they still point to Id2.
C31_Witness ==
    /\ Removed
    /\ output.arg = Id1
    /\ Get(output.before.workloads, Id1) = Container(Id1, <<"b">>, Id4, <<Net1, Net1>>)
    /\ PointsTo(output.before.by_hostname, Id4, Id2)
    /\ PointsTo(_by_hostname, Id4, Id2)
    /\ PointsTo(_by_name, <<"b">>, Id2)

\* An id that was not indexed was removed from an index that held others.
C31_WitnessMissing ==
    /\ Removed
    /\ output.arg = Id3
    /\ _workloads # <<>>

\* C32: every group that is a key of by_group has a member.
C32_NoEmptyGroup == \A g \in DOMAIN _by_group : _by_group[g] # {}

\* The workload that lists Net1 twice was removed and was the last of Net1;
\* a query was answered since.
C32_Witness ==
    /\ Removed
    /\ Get(output.before.workloads, output.arg) = Container(Id1, <<"b">>, Id4, <<Net1, Net1>>)
    /\ Members(output.before, Net1) = {Id1}
    /\ Net1 \notin DOMAIN _by_group
    /\ _workloads # <<>>
    /\ response # NoResponse

\* ============================================ which keys drive the index

\* The key is the data key of an id; the id of a data key.
IsDataKey(key) == \E id \in StoreIds : key = DataKey(id)
IdOfDataKey(key) == CHOOSE id \in StoreIds : key = DataKey(id)

\* A step of either _watch_loop that consumes the first event of the open
\* stream: not the break on the stop flag, not the raise of a value that
\* does not decode.
ConsumesEvent ==
    /\ watch_pc = "events" /\ watch_pc' = "events"
    /\ ~_stop_watch
    /\ events # <<>> /\ events' = Tail(events)

\* A step of either rebuild scan that consumes the first scanned record.
ConsumesRecord ==
    /\ rebuild_pc = "scanning" /\ rebuild_pc' = "scanning"
    /\ results # <<>> /\ results' = Tail(results)

\* C33: a scanned record or a watch event whose key is not a data key leaves
\* the four tables as they were; the PUT of a workload under a data key
\* applies update(id, W), a DELETE of a data key applies remove(id), a
\* scanned workload applies update(id, W).
C33_OnlyDataKeys ==
    [][/\ (ConsumesEvent /\ ~IsDataKey(Head(events).key)) => Index' = Index
       /\ (ConsumesRecord /\ ~IsDataKey(Head(results).key)) => Index' = Index
       /\ (ConsumesEvent /\ IsDataKey(Head(events).key) /\ Head(events).type = "PUT"
             /\ Decodes(Head(events).value)) =>
              Index' = _update_index(Index, IdOfDataKey(Head(events).key),
                                     from_json(Head(events).value))
       /\ (ConsumesEvent /\ IsDataKey(Head(events).key) /\ Head(events).type = "DELETE") =>
              Index' = _remove_from_index(Index, IdOfDataKey(Head(events).key))
       /\ (ConsumesRecord /\ IsDataKey(Head(results).key)
             /\ Decodes(Head(results).value)) =>
              Index' = _update_index(Index, IdOfDataKey(Head(results).key),
                                     from_json(Head(results).value))]_vars

\* The open stream's next event is the PUT of the metadata key of an
\* indexed id; the loop is not stopping, so its next step consumes it.
C33_Witness ==
    /\ watch_pc = "events"
    /\ ~_stop_watch
    /\ events # <<>>
    /\ Head(events).key = MetadataKey(Id1)
    /\ Head(events).type = "PUT"
    /\ Id1 \in Keys(_workloads)

\* The same for a DELETE of a metadata key, and for a scanned metadata key.
C33_WitnessDelete ==
    /\ watch_pc = "events"
    /\ ~_stop_watch
    /\ events # <<>>
    /\ Head(events).key = MetadataKey(Id1)
    /\ Head(events).type = "DELETE"
    /\ _workloads # <<>>

C33_WitnessScan ==
    /\ rebuild_pc = "scanning"
    /\ results # <<>>
    /\ Head(results).key = MetadataKey(Id1)
    /\ Id1 \in Keys(_workloads)

\* =================================== readers against an update in progress

\* The threads that take the index lock: the watch loop and an HTTP handler.
WATCH == "watch"
HTTP == "http"

\* Mutant of Acquirable: the lock never makes a thread wait.
AcquirableAlways(owner, thread) == TRUE

\* threading.RLock: "with self._lock" goes on without waiting when no thread
\* owns the lock or the thread itself does (the lock is re-entrant).
Acquirable(owner, thread) == owner \in {"free", thread}

\* No _update_index is between its remove and its insert.
NoWrite == [op |-> "none"]

\* The index that the last write to return has left.
Committed == IF writing = NoWrite THEN Index ELSE writing.before

\* _update_index(workload_id, workload) from "with self._lock" to the return
\* of its call of _remove_from_index, which takes the lock the thread owns
\* once more. The index is now without workload_id.
UpdateRemove(workload_id, workload) ==
    /\ writing = NoWrite
    /\ Acquirable(_lock, WATCH)
    /\ _lock' = WATCH
    /\ SetIndex(_remove_from_index(Index, workload_id))
    /\ writing' = [op |-> "update", workload_id |-> workload_id,
                   workload |-> workload, before |-> Index]
    /\ UNCHANGED <<response, store_vars, watcher_vars, query_vars, adapter_vars, runtime_vars, pure_vars>>

\* The rest of _update_index: the new entries are added, the lock is released.
UpdateInsert ==
    /\ writing # NoWrite
    /\ SetIndex(_update_index(Index, writing.workload_id, writing.workload))
    /\ writing' = NoWrite
    /\ _lock' = "free"
    /\ UNCHANGED <<response, store_vars, watcher_vars, query_vars, adapter_vars, runtime_vars, pure_vars>>

\* _remove_from_index(workload_id) of a DELETE event, whole under the lock.
LockedRemove(workload_id) ==
    /\ writing = NoWrite
    /\ Acquirable(_lock, WATCH)
    /\ SetIndex(_remove_from_index(Index, workload_id))
    /\ UNCHANGED <<response, store_vars, watcher_vars, query_vars, adapter_vars,
                   lock_vars, runtime_vars, pure_vars>>

\* get(workload_id)
LockedGet(workload_id) ==
    /\ Acquirable(_lock, HTTP)
    /\ response' = [op |-> "get", workload_id |-> workload_id,
                    workload |-> Get(_workloads, workload_id)]
    /\ UNCHANGED <<index_vars, store_vars, beyond_store>>

\* _identify_workload(identity) at the head of find_reachable: the caller is
\* kept for the second locked section; ValueError when there is none.
LockedIdentify(caller_identity) ==
    /\ call = NoCall
    /\ Acquirable(_lock, HTTP)
    /\ LET caller == _identify_workload(Index, caller_identity)
       IN  IF caller = NoWorkload
           THEN /\ response' = NotFound(caller_identity)
                /\ UNCHANGED call
           ELSE /\ response' = NoResponse
                /\ call' = [op |-> "find_reachable", identity |-> caller_identity,
                            caller |-> caller]
    /\ UNCHANGED <<index_vars, store_vars, watcher_vars, consistent, adapter_vars,
                   lock_vars, runtime_vars, pure_vars>>

\* The section of find_reachable under "with self._lock".
LockedReachable ==
    /\ call # NoCall
    /\ Acquirable(_lock, HTTP)
    /\ response' \in reachable_under_lock(Index, call.identity, call.caller)
    /\ call' = NoCall
    /\ UNCHANGED <<index_vars, store_vars, watcher_vars, consistent, adapter_vars,
                   lock_vars, runtime_vars, pure_vars>>

\* list_all(runtime)
LockedListAll(runtime) ==
    /\ Acquirable(_lock, HTTP)
    /\ ListAll(runtime)

NextLock ==
    \/ \E workload_id \in StoreIds : \E workload \in StoreValues(workload_id) :
           UpdateRemove(workload_id, workload)
    \/ UpdateInsert
    \/ \E workload_id \in StoreIds : LockedRemove(workload_id)
    \/ \E workload_id \in StoreIds : LockedGet(workload_id)
    \/ \E caller_identity \in QueryIdentities : LockedIdentify(caller_identity)
    \/ LockedReachable
    \/ \E runtime \in {None, DOCKER} : LockedListAll(runtime)

\* The watch loop's writes and an HTTP thread's reads, on one index lock.
SpecLock == Init /\ [][NextLock]_vars

\* C34: what get, the identification of a caller, the locked section of
\* find_reachable and list_all return is what the index left by the last
\* complete write gives: never the index between the remove and the insert
\* of an update.
C34_UpdateAtomic ==
    [][/\ \A workload_id \in StoreIds :
              LockedGet(workload_id) =>
                  response'.workload = Get(Committed.workloads, workload_id)
       /\ \A caller_identity \in QueryIdentities :
              LockedIdentify(caller_identity) =>
                  IF _identify_workload(Committed, caller_identity) = NoWorkload
                  THEN response' = NotFound(caller_identity)
                  ELSE call'.caller = _identify_workload(Committed, caller_identity)
       /\ LockedReachable =>
              response' \in reachable_under_lock(Committed, call.identity, call.caller)
       /\ \A runtime \in {None, DOCKER} :
              LockedListAll(runtime) =>
                  response'.workloads = list_all(Committed, runtime)]_vars

\* An update of an indexed id is between its remove and its insert, the id
\* is in no table, and a find_reachable that has identified that id as its
\* caller has its locked section still to run.
C34_Witness ==
    /\ writing # NoWrite
    /\ writing.workload_id \in Keys(writing.before.workloads)
    /\ writing.workload_id \notin Keys(_workloads)
    /\ \A g \in DOMAIN _by_group : writing.workload_id \notin _by_group[g]
    /\ call # NoCall
    /\ call.caller.id = writing.workload_id

\* ================================================ the startup of the server

\* The server's storage from connect() on, with a stream that does not fail
\* and values that all decode: the scan, the start of the watch thread, the
\* watch loop, and the other processes' writes at any moment.
NextStartup ==
    \/ \E workload_id \in StoreIds : \E workload \in StoreValues(workload_id) :
           ExternalPut(workload_id, to_json(workload))
    \/ ExternalPutMetadata(Id1)
    \/ \E workload_id \in StoreIds : ExternalDelete(workload_id)
    \/ ConnectClear
    \/ RebuildGetPrefix
    \/ RebuildItem
    \/ StartWatch
    \/ WatchLoopHead
    \/ WatchEvent

\* The steps of connect() and of the watch thread.
StartupSteps ==
    ConnectClear \/ RebuildGetPrefix \/ RebuildItem \/ StartWatch \/ WatchLoopHead
        \/ WatchEvent

SpecStartup == Init /\ [][NextStartup]_vars

\* connect() and the watch thread keep running: neither waits on anything
\* but the store, which answers. The writers stop after MaxWrites writes.
SpecStartupFair == SpecStartup /\ WF_vars(StartupSteps)

\* The watch is established and has no event left to handle.
WatchIdle == rebuild_pc = "connected" /\ watch_pc = "events" /\ events = <<>>

\* C35: after connect(), once the writers have stopped, the index holds
\* exactly the workloads of the store's data keys, and goes on doing so.
C35_NoWriteLostAtStartup == <>[]IndexMatchesStore

\* Each write that the open watch stream has delivered is applied: without
\* the writes of the startup window the index does match the store.
StartupWindowOnly ==
    [][(watch_pc = "events" /\ IndexMatchesStore /\ events = <<>>
          /\ (\E workload_id \in StoreIds : \E workload \in StoreValues(workload_id) :
                  ExternalPut(workload_id, to_json(workload))))
        => events' # <<>>]_vars

\* The watch is idle and the index lacks a workload whose data key the
\* store holds: the PUT came after the scan read the store and before the
\* watch opened.
C35_LostWrite ==
    /\ WatchIdle
    /\ cursor = "open"
    /\ \E id \in StoredIds : id \notin Keys(_workloads)

\* ================================ a container runtime, its events, the store

\* The containers of the runtime: one with the discover label, one without.
RuntimeContainers ==
    <<DockerContainer(DockerId1, <<"a">>, TRUE, <<Net1>>),
      DockerContainer(DockerId3, <<"x">>, FALSE, <<Net1>>)>>
RuntimeIds == {RuntimeContainers[i].id : i \in DOMAIN RuntimeContainers}
ContainerOf(id) == CHOOSE c \in SetOf(RuntimeContainers) : c.id = id

\* The event topics of containerd that watch_events handles, and one more.
TASK_START == "/tasks/start"
TASK_EXIT == "/tasks/exit"

\* ContainerdAdapter._get_workload(identity): the containers are listed, the
\* first whose id is or starts with the identity, whose short id or whose
\* name label is the identity, is converted.
containerd_get_workload(containers, identity) ==
    LET hits == {i \in DOMAIN containers :
                    \/ StartsWith(containers[i].id, identity)
                    \/ Take(containers[i].id, 12) = identity
                    \/ containers[i].name = identity}
    IN  IF hits = {} THEN NoWorkload
        ELSE containerd_container_to_workload(
                 containers[CHOOSE i \in hits : \A j \in hits : i <= j])

\* The workload of an exit or delete event of containerd: the id, the short
\* id as name and hostname.
ContainerdMinimal(container_id) ==
    WorkloadNew([id |-> container_id, name |-> Take(container_id, 12),
                 hostname |-> Take(container_id, 12),
                 runtime |-> CONTAINERD, workload_type |-> CONTAINER])

\* One iteration of "for envelope in events_stub.Subscribe(...)".
ContainerdLoopBody(containers, envelope) ==
    LET fetched == containerd_get_workload(containers, envelope.id)
    IN  CASE envelope.id = <<>> -> NoOutput
          [] envelope.topic = TASK_START ->
               IF fetched = NoWorkload THEN NoOutput ELSE Emit(ADDED, fetched)
          [] envelope.topic \in {TASK_EXIT, "/tasks/delete", "/containers/delete"} ->
               Emit(DELETED, ContainerdMinimal(envelope.id))
          [] OTHER -> NoOutput

\* The parts of a file name, from the second on, that are at least 12 long,
\* cut to 12, in order.
CniCandidates(filename) ==
    LET parts == Split(filename, "-")
        long == SelectSeq(Tail(parts), LAMBDA part : Len(part) >= 12)
    IN  [i \in DOMAIN long |-> Take(long[i], 12)]

\* CNIEventHandler._handle_cni_change(filepath): the first of these parts
\* that names a container gives the NETWORK_CHANGED call.
_handle_cni_change(containers, filename) ==
    LET candidates == CniCandidates(filename)
        found == {i \in DOMAIN candidates :
                     containerd_get_workload(containers, candidates[i]) # NoWorkload}
    IN  IF found = {} THEN NoOutput
        ELSE Emit(NETWORK_CHANGED,
                  containerd_get_workload(containers,
                      candidates[CHOOSE i \in found : \A j \in found : i <= j]))

\* The state file of a container's interface on Net1.
StateFile(container_id) ==
    CniFile(Net1, <<"d">>, container_id, <<"e", "t", "h", "0">>, <<>>).name

\* The adapter is connected to a Docker daemon or to containerd; the
\* containers exist and none runs.
RuntimeConnect(kind) ==
    /\ engine.kind = "none"
    /\ engine' = [kind |-> kind, status |-> [id \in RuntimeIds |-> "exited"]]
    /\ UNCHANGED <<index_vars, response, store_vars, watcher_vars, query_vars, adapter_vars,
                   lock_vars, stream, cni_changes, stopped, pure_vars>>

\* The event of the runtime's event stream for an action on a container.
RuntimeEvent(action, id) ==
    IF engine.kind = "docker"
    THEN [Action |-> action, id |-> id, name |-> None]
    ELSE [topic |-> IF action = "start" THEN TASK_START ELSE TASK_EXIT, id |-> id]

\* A container starts or stops: the runtime sends the event; under
\* containerd the CNI plugin also writes or deletes the state file.
ContainerStartStop(id) ==
    /\ engine.kind # "none"
    /\ produced < MaxEvents
    /\ produced' = produced + 1
    /\ LET starts == engine.status[id] = "exited"
       IN  /\ engine' = [engine EXCEPT !.status[id] = IF starts THEN "running" ELSE "exited"]
           /\ stream' = Append(stream, RuntimeEvent(IF starts THEN "start" ELSE "die", id))
    /\ cni_changes' = IF engine.kind = "containerd"
                      THEN Append(cni_changes, StateFile(id)) ELSE cni_changes
    /\ UNCHANGED <<index_vars, response, store_vars, watcher_vars, query_vars, lock_vars,
                   stopped, pure_vars>>
    /\ UNCHANGED <<main_pc, connect_result, _v1, _stop_event, to_register, watch_events_pc,
                   pod_pc, svc_pc, pod_stream, svc_stream, delivered, closed_at, token_vars>>

\* A container, running or not, is connected to or disconnected from a
\* network: Docker sends the event, under containerd a state file changes.
NetworkChange(id, action) ==
    /\ engine.kind # "none"
    /\ produced < MaxEvents
    /\ produced' = produced + 1
    /\ IF engine.kind = "docker"
       THEN /\ stream' = Append(stream, RuntimeEvent(action, id))
            /\ UNCHANGED cni_changes
       ELSE /\ cni_changes' = Append(cni_changes, StateFile(id))
            /\ UNCHANGED stream
    /\ UNCHANGED <<index_vars, response, store_vars, watcher_vars, query_vars, lock_vars,
                   engine, stopped, pure_vars>>
    /\ UNCHANGED <<main_pc, connect_result, _v1, _stop_event, to_register, watch_events_pc,
                   pod_pc, svc_pc, pod_stream, svc_stream, delivered, closed_at, token_vars>>

\* ServiceDiscovery._handle_event for the call an adapter makes, none for
\* no call: register or deregister, the KV write and the index write.
HandleCallback(made) ==
    IF made = NoOutput
    THEN UNCHANGED <<index_vars, kv, revision, events, _metadata, applied>>
    ELSE /\ IF made.event_type \in {ADDED, MODIFIED, NETWORK_CHANGED}
            THEN /\ KvPut(DataKey(made.workload.id), to_json(made.workload))
                 /\ SetIndex(_update_index(Index, made.workload.id, made.workload))
            ELSE /\ KvDeletePrefix(WorkloadPrefix(made.workload.id))
                 /\ SetIndex(_remove_from_index(Index, made.workload.id))
         /\ _metadata' = MetadataAfterRemove(_workloads, _metadata, made.workload.id)
         /\ applied' = FPut(applied, made.workload.id, revision')

\* The containers whose last handled lifecycle event was a stop, after one
\* more event of a container is handled: each with the number of its events
\* handled since that stop.
StoppedAfter(id, lifecycle) ==
    CASE lifecycle = "stop" -> FPut(stopped, id, 0)
      [] lifecycle = "start" -> FDel(stopped, id)
      [] OTHER -> IF id \in DOMAIN stopped THEN FPut(stopped, id, stopped[id] + 1)
                  ELSE stopped

\* Is an event of the stream a start, a stop, or neither.
Lifecycle(event) ==
    IF engine.kind = "docker"
    THEN CASE event.Action = "start" -> "start"
           [] event.Action \in {"stop", "die", "kill"} -> "stop"
           [] OTHER -> "other"
    ELSE IF event.topic = TASK_START THEN "start" ELSE "stop"

\* One iteration of the loop of watch_events, with the callback it calls.
RuntimeWatchEvent ==
    /\ stream # <<>>
    /\ LET event == Head(stream)
           made == IF engine.kind = "docker"
                   THEN DockerLoopBody(SetOf(RuntimeContainers), event)
                   ELSE ContainerdLoopBody(RuntimeContainers, event)
       IN  /\ HandleCallback(made)
           /\ stopped' = StoppedAfter(event.id, Lifecycle(event))
           /\ output' = [op |-> "handled", id |-> event.id, event |-> event, call |-> made]
    /\ stream' = Tail(stream)
    /\ response' = NoResponse
    /\ UNCHANGED <<cursor, watch_pc, _stop_watch, rebuild_pc, results, pending, query_vars,
                   adapter_vars, lock_vars, engine, cni_changes, input>>

\* The CNI observer's thread handles one changed file.
CniChange ==
    /\ cni_changes # <<>>
    /\ LET made == _handle_cni_change(RuntimeContainers, Head(cni_changes))
           id == CHOOSE id \in RuntimeIds : StateFile(id) = Head(cni_changes)
       IN  /\ HandleCallback(made)
           /\ stopped' = StoppedAfter(id, "other")
           /\ output' = [op |-> "handled", id |-> id, event |-> Head(cni_changes),
                         call |-> made]
    /\ cni_changes' = Tail(cni_changes)
    /\ response' = NoResponse
    /\ UNCHANGED <<cursor, watch_pc, _stop_watch, rebuild_pc, results, pending, query_vars,
                   adapter_vars, lock_vars, engine, stream, input>>

NextRuntime ==
    \/ \E kind \in {"docker", "containerd"} : RuntimeConnect(kind)
    \/ \E id \in RuntimeIds : ContainerStartStop(id)
    \/ \E id \in RuntimeIds : \E action \in {"connect", "disconnect"} :
           NetworkChange(id, action)
    \/ RuntimeWatchEvent
    \/ CniChange

\* A Docker or containerd adapter in watch_events and the events of its
\* runtime.
SpecRuntime == Init /\ [][NextRuntime]_vars

C36_WitnessCni ==
    /\ engine.kind = "containerd"
    /\ DockerId1 \in DOMAIN stopped
    /\ stopped[DockerId1] >= 1
    /\ cni_changes = <<>>
    /\ DataKey(DockerId1) \notin DOMAIN kv

ClusterPods == {PodNamed(Id1, <<"p">>, "Running"), PodNamed(Id3, <<"q">>, "Running")}
ClusterUids == {pod.uid : pod \in ClusterPods}
PodOf(uid) == CHOOSE pod \in ClusterPods : pod.uid = uid

\* The pods that run, and the pods whose data key the store holds.
RunningPods ==
    IF engine.kind = "kubernetes"
    THEN {uid \in ClusterUids : engine.status[uid] = "Running"} ELSE {}
RegisteredPods == {uid \in ClusterUids : DataKey(uid) \in DOMAIN kv}

\* create_runtime and KubernetesAdapter.connect(), which returns True: the
\* watcher is connected to the cluster, which has no pod yet.
ClusterConnect ==
    /\ engine.kind = "none"
    /\ main_pc = "start"
    /\ rebuild_pc = "connected"
    /\ _v1' = TRUE
    /\ connect_result' = "True"
    /\ main_pc' = "created"
    /\ engine' = [kind |-> "kubernetes", status |-> [uid \in ClusterUids |-> "absent"]]
    /\ UNCHANGED <<_stop_event, to_register, watch_events_pc, pod_pc, svc_pc,
                   pod_stream, svc_stream, produced, delivered, closed_at, token_vars>>
    /\ UNCHANGED <<index_vars, response, store_vars, watcher_vars, query_vars, lock_vars,
                   stream, cni_changes, stopped, pure_vars>>

\* Does the API server keep an event for the pod watch: the stream is open,
\* or the watch has a resume token to come back with.
Watched == pod_pc = "stream" \/ _resource_version # NoToken

\* A pod is created and runs, or a running pod is deleted, once the watch
\* threads have started: the API server numbers the event and keeps it for
\* the watch.
ClusterPodChange(uid) ==
    /\ engine.kind = "kubernetes"
    /\ pod_pc # "unstarted"
    /\ produced < MaxKubeEvents
    /\ produced' = produced + 1
    /\ LET runs == engine.status[uid] = "Running"
           event == [type |-> IF runs THEN "DELETED" ELSE "ADDED", object |-> PodOf(uid)]
       IN  /\ engine' = [engine EXCEPT !.status[uid] = IF runs THEN "absent" ELSE "Running"]
           /\ pod_stream' = IF Watched
                            THEN Append(pod_stream, [seq |-> produced + 1, event |-> event])
                            ELSE pod_stream
    /\ UNCHANGED <<index_vars, response, store_vars, watcher_vars, query_vars, lock_vars,
                   stream, cni_changes, stopped, pure_vars>>
    /\ UNCHANGED <<main_pc, connect_result, _v1, _stop_event, to_register, watch_events_pc,
                   pod_pc, svc_pc, svc_stream, delivered, closed_at, token_vars>>

\* What a watch opened with resource_version=None begins with: an ADDED
\* event for each pod that exists.
ListedFirst ==
    LET uids == SortedKeys(RunningPods)
    IN  [i \in DOMAIN uids |->
            [seq |-> produced, event |-> [type |-> "ADDED", object |-> PodOf(uids[i])]]]

\* The head of the while loop of _watch_pods and w.stream(...,
\* resource_version=self._resource_version): with a token the stream goes
\* on after it, with None it begins with the pods that exist.
PodWatchOpen ==
    /\ pod_pc = "loop"
    /\ pod_pc' = LoopHead(pod_pc)
    /\ pod_opened' = IF LoopHead(pod_pc) = "stream" THEN _resource_version ELSE pod_opened
    /\ pod_stream' = IF LoopHead(pod_pc) = "stream" /\ _resource_version = NoToken
                     THEN ListedFirst ELSE pod_stream
    /\ UNCHANGED <<main_pc, connect_result, _v1, _stop_event, to_register,
                   watch_events_pc, svc_pc, svc_stream, produced,
                   delivered, closed_at, _resource_version, resource_version, svc_opened>>
    /\ NoStorageChange

\* 410 Gone: the API server no longer has the events after the token the
\* stream was opened with.
PodWatchExpired ==
    /\ pod_opened # NoToken
    /\ PodWatchGone

NextGone ==
    \/ WatcherConnectClear
    \/ RebuildGetPrefix
    \/ WatcherRebuildItem
    \/ StartWatch
    \/ ClusterConnect
    \/ SyncList(<<>>, <<>>)
    \/ StartWatcher
    \/ WatchEventsCheck
    \/ WatchEventsClear
    \/ \E uid \in ClusterUids : ClusterPodChange(uid)
    \/ PodWatchOpen
    \/ PodEvent
    \/ PodStreamEnd
    \/ PodWatchExpired

\* The steps of the watcher: its start and the thread of _watch_pods.
GoneSteps ==
    \/ WatcherConnectClear \/ RebuildGetPrefix \/ WatcherRebuildItem \/ StartWatch
    \/ ClusterConnect \/ SyncList(<<>>, <<>>) \/ StartWatcher
    \/ WatchEventsCheck \/ WatchEventsClear \/ PodWatchOpen \/ PodEvent

SpecGone == Init /\ [][NextGone]_vars

\* The watcher's threads keep running; the cluster changes at most
\* MaxKubeEvents times; streams end and tokens expire at any time.
SpecGoneFair == SpecGone /\ WF_vars(GoneSteps)

\* The store takes one more write.
WritesLeft == revision < MaxWrites

\* C37: from some moment on the pods registered in the store are the pods
\* that run, whatever token resets the watch went through.
C37_ConvergesAfterTokenReset == <>[](WritesLeft => RegisteredPods = RunningPods)

\* The stream was opened with no token after a reset and has nothing left
\* to deliver; a pod that was deleted is registered still.
C37_StaleAfterReset ==
    /\ pod_pc = "stream"
    /\ pod_stream = <<>>
    /\ pod_opened = NoToken
    /\ produced = MaxKubeEvents
    /\ \E uid \in RegisteredPods : uid \notin RunningPods

\* ================================= metadata across updates of a workload

\* C38: a register of a workload that is indexed leaves the metadata table
\* as it was.
C38_MetadataSurvivesUpdate ==
    [][\A workload \in RegisterWorkloads :
          (Register(workload) /\ workload.id \in Keys(_workloads)) =>
              _metadata' = _metadata]_vars

\* The store holds the metadata key of an indexed workload and the metadata
\* table has no entry for it: a register after set_metadata dropped it.
C38_MetadataDropped ==
    /\ MetadataKey(Id1) \in DOMAIN kv
    /\ Id1 \in Keys(_workloads)
    /\ Id1 \notin DOMAIN _metadata
    /\ output # NoOutput /\ output.op = "register"

\* ============================ the two find_reachable on one index contents

\* The watcher's find_reachable(caller_identity), include_services left at
\* its default: reads the index and the metadata map, returns one of its
\* results; before is the index it read.
WatcherFindReachable(caller_identity) ==
    /\ \E result \in watcher_find_reachable(Index, _metadata, caller_identity, TRUE) :
           output' = [op |-> "find_reachable", before |-> Index, result |-> result]
    /\ UNCHANGED <<index_vars, response>>
    /\ UNCHANGED <<store_vars, watcher_vars, query_vars, adapter_vars, lock_vars,
                   runtime_vars, input>>

NextAgree ==
    \/ \E workload_id \in WrittenIds : \E workload \in WrittenValues(workload_id) :
           IndexUpdate(workload_id, workload)
    \/ \E workload_id \in WrittenIds : IndexRemove(workload_id)
    \/ \E caller_identity \in {Id1, Id4, <<"b">>, <<"z", "z">>} :
           FindReachable(caller_identity)
    \/ \E caller_identity \in {Id1, Id4, <<"b">>, <<"z", "z">>} :
           WatcherFindReachable(caller_identity)

SpecAgree == Init /\ [][NextAgree]_vars

\* The reachable workload of id in a result.
ReachableOf(result, id) ==
    result.reachable[CHOOSE i \in DOMAIN result.reachable : result.reachable[i].id = id]

ReachableIdsOf(result) == {result.reachable[i].id : i \in DOMAIN result.reachable}

\* Two results name the same caller and the same reachable ids, each with
\* the same addresses and the same isolation groups (in any order).
SameReachability(a, b) ==
    /\ a.status = b.status
    /\ a.status = "ok" =>
         /\ a.caller = b.caller
         /\ ReachableIdsOf(a) = ReachableIdsOf(b)
         /\ \A id \in ReachableIdsOf(a) :
                /\ ReachableOf(a, id).addresses = ReachableOf(b, id).addresses
                /\ SetOf(ReachableOf(a, id).isolation_groups)
                       = SetOf(ReachableOf(b, id).isolation_groups)

\* Both calls have answered for one identity on the index as it is now.
BothAnswered ==
    /\ response # NoResponse /\ response.op = "find_reachable"
    /\ output # NoOutput /\ output.op = "find_reachable"
    /\ output.before = Index
    /\ output.result.identity = response.identity

\* C40: on the same index contents and for the same caller identity the
\* watcher's find_reachable and the query server's return the same caller
\* and the same reachable ids, each with the same isolation groups and
\* addresses.
C40_FindReachableAgree == BothAnswered => SameReachability(response, output.result)

\* The two calls agree on the caller and on the reachable ids.
C40_SameCallerAndIds ==
    BothAnswered =>
        /\ response.status = output.result.status
        /\ response.status = "ok" =>
             /\ response.caller = output.result.caller
             /\ ReachableIdsOf(response) = ReachableIdsOf(output.result)

\* The caller is in one group only and reaches a workload of two groups:
\* the server returns the shared group and the address in it, the watcher
\* both groups and both addresses.
C40_Differ ==
    /\ BothAnswered /\ response.status = "ok"
    /\ \E id \in ReachableIdsOf(response) \cap ReachableIdsOf(output.result) :
           /\ Len(ReachableOf(response, id).addresses)
                  < Len(ReachableOf(output.result, id).addresses)
           /\ SetOf(ReachableOf(response, id).isolation_groups)
                  # SetOf(ReachableOf(output.result, id).isolation_groups)

====
